---- MODULE Spec2Model ----
(***************************************************************************)
(* Neural cellular automaton demo (shasabolton/neuralca): the Grid, the    *)
(* NeuralNetwork wrapper, the CellularAutomata update and run loop, the    *)
(* GeneticAlgorithm and the Trainer that drives it, and the UI handlers    *)
(* of main.js that start and stop them.                                    *)
(*                                                                         *)
(* JavaScript runs every task (an event handler, a timer callback, the     *)
(* continuation of an await) to completion, so each action below is one    *)
(* task.  Floating-point weights are modelled by small integers, and the   *)
(* three dense layers of the tf.js model by one integer dense layer: what  *)
(* the model keeps is that a network is a pure function of its parameter   *)
(* sequence and of the neighbourhood input.  tanh is modelled by the sign. *)
(***************************************************************************)
EXTENDS Integers, Sequences, FiniteSets, TLC

\* ------------------------------------------------------------------ bounds
GridW == 3              \* grid width  (main.js builds Grid(9, 9))
GridH == 3              \* grid height
MaxSteps == 3           \* largest step limit / step count explored for a run
MaxPending == 2         \* pending run-loop timers and frames explored at once

\* ------------------------------------------------------- program constants
K == 2                  \* floats in a cell's state vector
NumNeighbors == 5       \* top, bottom, left, right, self
TargetDim == 5          \* the target shape is 5x5
HalfTarget == 2         \* offset of the loss window from the grid centre

InputLen == NumNeighbors * (1 + K)
OutLen == 1 + K
NumWeights == (InputLen + 1) * OutLen

Pos == (0 .. GridW - 1) \X (0 .. GridH - 1)
ZeroVector == <<0, 0>>
OffCell == [on |-> FALSE, stateVector |-> ZeroVector]

\* a JavaScript null where a number is expected (maxSteps, animationFrameId)
Null == -1
\* a JavaScript null where a state vector is expected (its length is not K)
NoVector == << >>

\* ----------------------------------------------------------------- helpers
\* JavaScript's % (the sign follows the dividend)
JsRem(a, b) == IF a >= 0 THEN a % b ELSE 0 - ((0 - a) % b)

\* Math.floor(a / 2) for a >= 0
FloorHalf(a) == a \div 2

\* the function f with every value computed (TLC would otherwise recompute a
\* value each time it is read)
Eager(f) == f @@ << >>

\* f is [v \in {e} |-> body]: e is computed once, then body with v its value
\* (a const declaration and the statements after it)
With(f) == f[CHOOSE v \in DOMAIN f : TRUE]

Sgn(z) == IF z > 0 THEN 1 ELSE IF z < 0 THEN -1 ELSE 0

RECURSIVE SumSeq(_, _)
SumSeq(s, n) == IF n = 0 THEN 0 ELSE s[n] + SumSeq(s, n - 1)

\* -------------------------------------------------------------------- Grid
\* new Grid(width, height): every cell off with a zero state vector
NewGrid == Eager([p \in Pos |-> OffCell])

\* Grid.getCell, torus variant: both coordinates wrap
getCellTorus(cells, x, y) ==
    LET wrappedX == (JsRem(x, GridW) + GridW) % GridW
        wrappedY == (JsRem(y, GridH) + GridH) % GridH
    IN  cells[<<wrappedX, wrappedY>>]

\* the padding variant reading outside the grid as the torus does
getCellWrapping(cells, x, y) == cells[<<x % GridW, y % GridH>>]

\* Grid.getCell, padding variant: a fresh off cell outside the grid
getCellPadded(cells, x, y) ==
    IF x < 0 \/ x >= GridW \/ y < 0 \/ y >= GridH
    THEN OffCell
    ELSE cells[<<x, y>>]

getCell(isTorus, cells, x, y) ==
    IF isTorus THEN getCellTorus(cells, x, y) ELSE getCellPadded(cells, x, y)

\* which object Grid.getCell returns: the grid's own cell object at a position
\* (this.cells[..][..]) or an object made by the call (the literal in the
\* padding variant's return)
getCellObject(isTorus, x, y) ==
    IF isTorus
    THEN [fresh |-> FALSE,
          at |-> <<(JsRem(x, GridW) + GridW) % GridW,
                   (JsRem(y, GridH) + GridH) % GridH>>]
    ELSE IF x < 0 \/ x >= GridW \/ y < 0 \/ y >= GridH
         THEN [fresh |-> TRUE, at |-> <<Null, Null>>]
         ELSE [fresh |-> FALSE, at |-> <<x, y>>]

\* setCell with the coordinates wrapped as getCell wraps them
setCellWrapping(cells, x, y, on, stateVector) ==
    [cells EXCEPT ![<<x % GridW, y % GridH>>] =
        [on |-> on,
         stateVector |-> IF stateVector # NoVector /\ Len(stateVector) = K
                         THEN stateVector
                         ELSE @.stateVector]]

\* Grid.setCell: stateVector is NoVector (null) or a sequence of floats
setCell(cells, x, y, on, stateVector) ==
    IF x < 0 \/ x >= GridW \/ y < 0 \/ y >= GridH
    THEN cells
    ELSE [cells EXCEPT ![<<x, y>>] =
            [on |-> on,
             stateVector |-> IF stateVector # NoVector /\ Len(stateVector) = K
                             THEN stateVector
                             ELSE @.stateVector]]

\* getNeighbors with left and right exchanged
getNeighborsRightFirst(isTorus, cells, x, y) ==
    << getCell(isTorus, cells, x, y - 1),
       getCell(isTorus, cells, x, y + 1),
       getCell(isTorus, cells, x + 1, y),
       getCell(isTorus, cells, x - 1, y),
       getCell(isTorus, cells, x, y) >>

\* Grid.getNeighbors: top, bottom, left, right, self
getNeighbors(isTorus, cells, x, y) ==
    << getCell(isTorus, cells, x, y - 1),
       getCell(isTorus, cells, x, y + 1),
       getCell(isTorus, cells, x - 1, y),
       getCell(isTorus, cells, x + 1, y),
       getCell(isTorus, cells, x, y) >>

\* Grid.getNeighborInput: [on ? 1 : 0, stateVector...] of each neighbour
getNeighborInput(isTorus, cells, x, y) ==
    LET neighbors == getNeighbors(isTorus, cells, x, y)
    IN  Eager([idx \in 1 .. InputLen |->
            LET neighbor == neighbors[((idx - 1) \div (1 + K)) + 1]
                c == (idx - 1) % (1 + K)
            IN  IF c = 0 THEN (IF neighbor.on THEN 1 ELSE 0)
                ELSE neighbor.stateVector[c]])

\* Grid.clear
clear(cells) == Eager([p \in Pos |-> OffCell])

\* _resetToSeedCell (GeneticAlgorithm, Trainer, main.js): clear, then the
\* centre cell on; setCell gets no state vector
resetToSeedCellKeepingCells(cells) ==
    setCell(cells, FloorHalf(GridW), FloorHalf(GridH), TRUE, NoVector)

_resetToSeedCell(cells) ==
    setCell(clear(cells), FloorHalf(GridW), FloorHalf(GridH), TRUE, NoVector)

\* ----------------------------------------------------------- NeuralNetwork
\* Index of the weight from input `i` to output `o` in the flat parameter
\* sequence; the biases follow the kernel.
KernelIdx(i, o) == (i - 1) * OutLen + o
BiasIdx(o) == InputLen * OutLen + o

\* input index of channel c (0 = on/off) of neighbour g (1 = top .. 5 = self)
InputIdx(g, c) == (g - 1) * (1 + K) + c + 1

\* model.predict for one input row: one dense layer, linear activation
Dense(w, input, o) ==
    w[BiasIdx(o)]
      + SumSeq([i \in 1 .. InputLen |-> input[i] * w[KernelIdx(i, o)]], InputLen)

\* NeuralNetwork.predictBatch, one element: sigmoid(z) > 0.5 iff z > 0
predictOne(w, input) ==
    [on |-> Dense(w, input, 1) > 0,
     stateVector |-> Eager([j \in 1 .. K |-> Sgn(Dense(w, input, 1 + j))])]

predictBatch(w, inputs) ==
    Eager([i \in 1 .. Len(inputs) |-> predictOne(w, inputs[i])])

\* ------------------------------------------------- CellularAutomata.update
\* the order update() visits the cells in: y outer, x inner
RowMajor ==
    Eager([i \in 1 .. GridW * GridH |-> <<(i - 1) % GridW, (i - 1) \div GridW>>])

\* a buggy update that writes each cell as soon as it is computed
RECURSIVE updateInPlace(_, _, _, _, _)
updateInPlace(isTorus, cells, w, cellPositions, i) ==
    IF i > Len(cellPositions) THEN cells
    ELSE LET p == cellPositions[i]
             newState == predictOne(w, getNeighborInput(isTorus, cells, p[1], p[2]))
         IN  updateInPlace(isTorus,
                 setCell(cells, p[1], p[2], newState.on, newState.stateVector),
                 w, cellPositions, i + 1)

updateCellsInPlace(isTorus, cells, w, cellPositions) ==
    updateInPlace(isTorus, cells, w, cellPositions, 1)

\* phase 3 of update(): apply the new states in visiting order
RECURSIVE applyStates(_, _, _, _)
applyStates(cells, cellPositions, newStates, i) ==
    IF i > Len(cellPositions) THEN cells
    ELSE applyStates(
            setCell(cells, cellPositions[i][1], cellPositions[i][2],
                    newStates[i].on, newStates[i].stateVector),
            cellPositions, newStates, i + 1)

\* update() past its initialisation check, visiting the cells in the given
\* order: collect every input, predict the batch, then apply
updateCells(isTorus, cells, w, cellPositions) ==
    LET inputs == Eager([i \in 1 .. Len(cellPositions) |->
                      getNeighborInput(isTorus, cells,
                                       cellPositions[i][1], cellPositions[i][2])])
        newStates == predictBatch(w, inputs)
    IN  applyStates(cells, cellPositions, newStates, 1)

\* an update without its check, on a network whose predictBatch has none
updateUnchecked(isTorus, cells, net) ==
    [threw |-> FALSE, cells |-> updateCells(isTorus, cells, net.w, RowMajor)]

\* CellularAutomata.update on network object `net`: throws when the network
\* is not initialised
update(isTorus, cells, net) ==
    IF ~net.isInitialized
    THEN [threw |-> TRUE, cells |-> cells]
    ELSE [threw |-> FALSE, cells |-> updateCells(isTorus, cells, net.w, RowMajor)]

\* genSteps consecutive update() calls; stops at the first that throws
RECURSIVE runSteps(_, _, _, _)
runSteps(isTorus, cells, net, genSteps) ==
    IF genSteps <= 0 THEN [threw |-> FALSE, cells |-> cells]
    ELSE LET r == update(isTorus, cells, net)
         IN  IF r.threw THEN r ELSE runSteps(isTorus, r.cells, net, genSteps - 1)

\* ------------------------------------------------ the dense representation
\* A tensor is kept as its nested array: rows, columns, channels. Its
\* elements are counted in units of 1/TensorUnit, so that 0.5 is a value.
TensorUnit == 2

\* tf.tensor3d(data, [height, width, depth]): the flat data, row-major
tensor3d(data, height, width, depth) ==
    Eager([r \in 1 .. height |->
       Eager([c \in 1 .. width |->
          Eager([d \in 1 .. depth |->
             data[((r - 1) * width + (c - 1)) * depth + d]])])])

\* tensor.dataSync(): the elements of a 3-d tensor, row-major
dataSync(tensor) ==
    LET height == Len(tensor)
        width == Len(tensor[1])
        depth == Len(tensor[1][1])
    IN  Eager([i \in 1 .. height * width * depth |->
            tensor[((i - 1) \div (width * depth)) + 1]
                  [(((i - 1) \div depth) % width) + 1]
                  [((i - 1) % depth) + 1]])

\* a toTensor whose loops run x outside, y inside
toTensorColumnMajor(cells) ==
    tensor3d(Eager([i \in 1 .. GridH * GridW * (1 + K) |->
                 LET cell == cells[<<((i - 1) \div (1 + K)) \div GridH,
                                     ((i - 1) \div (1 + K)) % GridH>>]
                     c == (i - 1) % (1 + K)
                 IN  IF c = 0 THEN (IF cell.on THEN TensorUnit ELSE 0)
                     ELSE TensorUnit * cell.stateVector[c]]),
             GridH, GridW, 1 + K)

\* Grid.toTensor: for y, for x: push on ? 1.0 : 0.0 and the state vector
toTensor(cells) ==
    tensor3d(Eager([i \in 1 .. GridH * GridW * (1 + K) |->
                 LET cell == cells[RowMajor[((i - 1) \div (1 + K)) + 1]]
                     c == (i - 1) % (1 + K)
                 IN  IF c = 0 THEN (IF cell.on THEN TensorUnit ELSE 0)
                     ELSE TensorUnit * cell.stateVector[c]]),
             GridH, GridW, 1 + K)

\* the loops of Grid.fromTensor from cell i of the visiting order on
RECURSIVE fromTensorFrom(_, _, _)
fromTensorFrom(cells, data, i) ==
    IF i > GridW * GridH THEN cells
    ELSE LET idx == (i - 1) * (1 + K)
             on == 2 * data[idx + 1] > TensorUnit
             stateVector == Eager([j \in 1 .. K |-> data[idx + 1 + j] \div TensorUnit])
         IN  fromTensorFrom(setCell(cells, RowMajor[i][1], RowMajor[i][2], on, stateVector),
                            data, i + 1)

\* a fromTensor that turns a cell on from 0.5 on
fromTensorFromHalf(cells, tensor) ==
    Eager([p \in Pos |->
        [on |-> 2 * tensor[p[2] + 1][p[1] + 1][1] >= TensorUnit,
         stateVector |-> Eager([j \in 1 .. K |->
                            tensor[p[2] + 1][p[1] + 1][1 + j] \div TensorUnit])]])

\* Grid.fromTensor
fromTensor(cells, tensor) == fromTensorFrom(cells, dataSync(tensor), 1)

\* an updateTensor that pads with zeros
zeroPadded(gridTensor) ==
    LET height == Len(gridTensor)
        width == Len(gridTensor[1])
        zero == Eager([d \in 1 .. 1 + K |-> 0])
    IN  Eager([r \in 1 .. height + 2 |->
           Eager([c \in 1 .. width + 2 |->
              IF r \in 2 .. height + 1 /\ c \in 2 .. width + 1
              THEN gridTensor[r - 1][c - 1]
              ELSE zero])])

\* updateTensor, the padding: the last row above, the first row below, then
\* the last column to the left and the first column to the right
paddedGrid(gridTensor) ==
    LET height == Len(gridTensor)
        width == Len(gridTensor[1])
        topRow == SubSeq(gridTensor, height, height)
        bottomRow == SubSeq(gridTensor, 1, 1)
        topBottomPadded == topRow \o gridTensor \o bottomRow
        leftCol == Eager([r \in 1 .. height + 2 |->
                       SubSeq(topBottomPadded[r], width, width)])
        rightCol == Eager([r \in 1 .. height + 2 |->
                       SubSeq(topBottomPadded[r], 1, 1)])
    IN  Eager([r \in 1 .. height + 2 |->
            leftCol[r] \o topBottomPadded[r] \o rightCol[r]])

\* updateTensor, the input batch: for y, for x: top, bottom, left, right,
\* self of the padded grid at (y + 1, x + 1)
inputBatch(gridTensor) ==
    LET height == Len(gridTensor)
        width == Len(gridTensor[1])
        padded == paddedGrid(gridTensor)
    IN  Eager([i \in 1 .. height * width |->
            LET py == ((i - 1) \div width) + 1
                px == ((i - 1) % width) + 1
            IN  padded[py - 1 + 1][px + 1] \o padded[py + 1 + 1][px + 1]
                  \o padded[py + 1][px - 1 + 1] \o padded[py + 1][px + 1 + 1]
                  \o padded[py + 1][px + 1]])

\* model.apply for one row of the input batch, whose elements are counted in
\* units of 1/TensorUnit; so is the result
DenseOfTensor(w, row, o) ==
    TensorUnit * w[BiasIdx(o)]
      + SumSeq([i \in 1 .. InputLen |-> row[i] * w[KernelIdx(i, o)]], InputLen)

\* tf.sigmoid and tf.tanh in three levels: sigmoid is 0, 0.5 or 1 and tanh is
\* -1, 0 or 1, by the sign of the argument
sigmoidLevel(z) == IF z > 0 THEN TensorUnit ELSE IF z = 0 THEN TensorUnit \div 2 ELSE 0
tanhLevel(z) == TensorUnit * Sgn(z)

\* updateTensor past its check: the new states of the batch, reshaped to
\* [height, width, 1 + K]
newStatesOf(w, gridTensor) ==
    LET height == Len(gridTensor)
        width == Len(gridTensor[1])
        inputs == inputBatch(gridTensor)
    IN  Eager([r \in 1 .. height |->
           Eager([c \in 1 .. width |->
              Eager([d \in 1 .. 1 + K |->
                 LET z == DenseOfTensor(w, inputs[(r - 1) * width + c], d)
                 IN  IF d = 1 THEN sigmoidLevel(z) ELSE tanhLevel(z)])])])

\* an updateTensor that hands its input back
updateTensorSkipped(net, gridTensor) ==
    [threw |-> ~net.isInitialized, tensor |-> gridTensor]

\* an updateTensor without its check
updateTensorUnchecked(net, gridTensor) ==
    [threw |-> FALSE, tensor |-> newStatesOf(net.w, gridTensor)]

\* CellularAutomata.updateTensor on network object `net`
updateTensor(net, gridTensor) ==
    IF ~net.isInitialized
    THEN [threw |-> TRUE, tensor |-> gridTensor]
    ELSE [threw |-> FALSE, tensor |-> newStatesOf(net.w, gridTensor)]

\* a predict without its check
predictUnchecked(net, input) ==
    [threw |-> FALSE, result |-> predictOne(net.w, input)]

\* NeuralNetwork.predict
predict(net, input) ==
    IF ~net.isInitialized
    THEN [threw |-> TRUE, result |-> OffCell]
    ELSE [threw |-> FALSE, result |-> predictOne(net.w, input)]

\* NeuralNetwork.predictBatch with its check
predictBatchOf(net, inputs) ==
    IF ~net.isInitialized
    THEN [threw |-> TRUE, results |-> << >>]
    ELSE [threw |-> FALSE, results |-> predictBatch(net.w, inputs)]

\* ------------------------------------------------------------ initial nets
\* a parameter sequence that is zero except at the given <<index, value>>
WeightsOf(entries) ==
    Eager([n \in 1 .. NumWeights |->
        IF \E e \in entries : e[1] = n
        THEN (CHOOSE e \in entries : e[1] = n)[2]
        ELSE 0])

\* on <- any of the five neighbours on; state[1] <- self on
WGrow ==
    WeightsOf({<<KernelIdx(InputIdx(g, 0), 1), 1>> : g \in 1 .. NumNeighbors}
              \cup {<<KernelIdx(InputIdx(5, 0), 2), 1>>})

\* on <- left neighbour on or own state[1] set; state[1] <- top neighbour on;
\* state[2] <- minus self on
WShift ==
    WeightsOf({<<KernelIdx(InputIdx(3, 0), 1), 1>>,
               <<KernelIdx(InputIdx(5, 1), 1), 1>>,
               <<KernelIdx(InputIdx(1, 0), 2), 1>>,
               <<KernelIdx(InputIdx(5, 0), 3), -1>>})

\* on <- self off (bias 1, self on weighs -2)
WBlink ==
    WeightsOf({<<BiasIdx(1), 1>>, <<KernelIdx(InputIdx(5, 0), 1), -2>>})

\* what NeuralNetwork.initialize() may draw for the fresh model's weights
InitWeights == {WGrow, WShift, WBlink}

\* ------------------------------------------------------------------- state
VARIABLES
    torus,      \* which Grid variant is deployed: TRUE wraps, FALSE pads
    cells,      \* Grid.cells
    nets,       \* every NeuralNetwork object: [w, isInitialized]; 1 is the shared one
    ca,         \* the CellularAutomata object
    timeouts,   \* pending setTimeout callbacks of _runLoop
    frames,     \* pending requestAnimationFrame ids of _runLoop
    gas,        \* every GeneticAlgorithm object
    trainer,    \* the Trainer object
    calls,      \* every Trainer.train() call and the GeneticAlgorithm.train() it awaits
    trainButton,\* the Train button of the page
    lastRun,    \* history: the run start() began last, [limit, clean, updates, ended]
    lastEval,   \* history: <<w, loss>> of each individual of the generation evaluated last
    ev,         \* what the last task did
    preCells    \* Grid.cells before the last task

vars == <<torus, cells, nets, ca, timeouts, frames, gas, trainer, calls, trainButton,
          lastRun, lastEval, ev, preCells>>

SharedNet == 1
NoFrame == Null

EmptyLog ==
    [loopUpdates |-> 0,      \* update() calls made by _runLoop that returned
     loopThrew |-> FALSE,    \* an update() made by _runLoop threw
     callbacks |-> 0,        \* calls of the update callback
     completions |-> 0,      \* calls of the completion callback
     completionsWhileRunning |-> 0,  \* those made while isRunning was true
     consoleErrors |-> 0,    \* console.error calls
     evals |-> << >>,        \* the fitness evaluations that returned
     evalEnds |-> << >>,     \* per evaluation: how it ended, ca.neuralNetwork before and after
     cbReturns |-> << >>,    \* what the progress callback returned, per call
     gaReturns |-> << >>,    \* what GeneticAlgorithm.train returned: [call, losses]
     api |-> << >>,          \* calls a client made on the Grid and the loss functions
     rollout |-> << >>,      \* what an iteration of the gradient trainer did, in order
     resolved |-> {},        \* the train() calls that resolved
     rejected |-> {}]        \* the train() calls that rejected

\* the mutable objects a task works on; `threw` is an exception on its way
\* up the call stack
World ==
    [cells |-> cells, nets |-> nets, ca |-> ca, timeouts |-> timeouts,
     frames |-> frames, gas |-> gas, trainer |-> trainer, calls |-> calls,
     trainButton |-> trainButton, lastRun |-> lastRun, lastEval |-> lastEval,
     threw |-> FALSE, log |-> EmptyLog]

Commit(s, kind) ==
    /\ cells' = s.cells
    /\ nets' = s.nets
    /\ ca' = s.ca
    /\ timeouts' = s.timeouts
    /\ frames' = s.frames
    /\ gas' = s.gas
    /\ trainer' = s.trainer
    /\ calls' = s.calls
    /\ trainButton' = s.trainButton
    /\ lastRun' = s.lastRun
    /\ lastEval' = s.lastEval
    /\ ev' = [kind |-> kind, uncaught |-> s.threw, log |-> s.log]
    /\ preCells' = cells
    /\ UNCHANGED torus

\* -------------------------------------------------- CellularAutomata object
\* constructor
NewCellularAutomata ==
    [neuralNetwork |-> SharedNet,
     isRunning |-> FALSE,
     animationFrameId |-> NoFrame,
     updateCallback |-> FALSE,
     maxSteps |-> Null,
     currentStep |-> 0,
     isContinuous |-> FALSE,
     completionCallback |-> FALSE]

\* CellularAutomata.stop
stop(s) ==
    [s EXCEPT !.frames = IF s.ca.animationFrameId # NoFrame
                         THEN @ \ {s.ca.animationFrameId}
                         ELSE @,
              !.ca = [@ EXCEPT !.isRunning = FALSE,
                               !.animationFrameId = NoFrame,
                               !.currentStep = 0,
                               !.completionCallback = FALSE]]

\* a step-limit test that forgets the continuous flag
reachedStepLimitAlways(c) == c.maxSteps # Null /\ c.currentStep >= c.maxSteps

\* a step-limit test that is one step late
reachedStepLimitLate(c) ==
    ~c.isContinuous /\ c.maxSteps # Null /\ c.currentStep > c.maxSteps

\* the step-limit test of _runLoop
reachedStepLimit(c) ==
    ~c.isContinuous /\ c.maxSteps # Null /\ c.currentStep >= c.maxSteps

\* a guard that lets every scheduled frame run
loopAlwaysRuns(c) == TRUE

\* the guard at the top of _runLoop
loopMayRun(c) == c.isRunning

\* history only: how the run that start() began last came to its end
NoRun ==
    [limit |-> Null, clean |-> TRUE, updates |-> 0, ended |-> "never started",
     completion |-> FALSE]
endRun(s, how) ==
    IF s.lastRun.ended = "no" THEN [s EXCEPT !.lastRun.ended = how] ELSE s

\* a catch block that logs the error and lets the loop go on
catchAndGoOn(s) ==
    [s EXCEPT !.log.loopThrew = TRUE, !.log.consoleErrors = @ + 1, !.timeouts = @ + 1]

\* a catch block that reports the end of the run to the completion callback
catchAndComplete(s) ==
    LET s1 == endRun(stop([s EXCEPT !.log.loopThrew = TRUE,
                                    !.log.consoleErrors = @ + 1]), "error")
    IN  IF s.ca.completionCallback THEN [s1 EXCEPT !.log.completions = @ + 1] ELSE s1

\* the catch block of _runLoop
catchUpdateError(s) ==
    endRun(stop([s EXCEPT !.log.loopThrew = TRUE, !.log.consoleErrors = @ + 1]), "error")


\* CellularAutomata._runLoop
_runLoop(s) ==
    IF ~loopMayRun(s.ca) THEN s
    ELSE
      LET r == update(torus, s.cells, s.nets[s.ca.neuralNetwork])
          s1 == [s EXCEPT !.cells = r.cells,
                          !.ca.currentStep = @ + 1,
                          !.lastRun.updates = @ + 1,
                          !.log.loopUpdates = @ + 1]
      IN  IF r.threw THEN catchUpdateError(s)
          ELSE IF reachedStepLimit(s1.ca)
          THEN LET completionCallback == s1.ca.completionCallback
                   s2 == endRun(stop(s1), "limit")
               IN  IF completionCallback
                   THEN [s2 EXCEPT !.log.completions = @ + 1,
                                   !.log.completionsWhileRunning =
                                       IF s2.ca.isRunning THEN @ + 1 ELSE @]
                   ELSE s2
          ELSE LET s2 == IF s1.ca.updateCallback
                         THEN [s1 EXCEPT !.log.callbacks = @ + 1]
                         ELSE s1
               IN  [s2 EXCEPT !.timeouts = @ + 1]

\* a start without its guard: it restarts a loop that is running
startUnguarded(s, callback, maxSteps, isContinuous, completionCallback) ==
    _runLoop([s EXCEPT !.lastRun = [limit |-> IF isContinuous THEN Null ELSE maxSteps,
                                    clean |-> s.timeouts = 0 /\ s.frames = {},
                                    updates |-> 0,
                                    ended |-> "no",
                                    completion |-> completionCallback],
                       !.ca = [@ EXCEPT !.updateCallback = callback,
                                        !.maxSteps = maxSteps,
                                        !.isContinuous = isContinuous,
                                        !.currentStep = 0,
                                        !.completionCallback = completionCallback,
                                        !.isRunning = TRUE]])

\* CellularAutomata.start
start(s, callback, maxSteps, isContinuous, completionCallback) ==
    IF s.ca.isRunning THEN s
    ELSE _runLoop([s EXCEPT !.lastRun = [limit |-> IF isContinuous THEN Null ELSE maxSteps,
                                     clean |-> s.timeouts = 0 /\ s.frames = {},
                                     updates |-> 0,
                                     ended |-> "no",
                                     completion |-> completionCallback],
                            !.ca = [@ EXCEPT !.updateCallback = callback,
                                             !.maxSteps = maxSteps,
                                             !.isContinuous = isContinuous,
                                             !.currentStep = 0,
                                             !.completionCallback = completionCallback,
                                             !.isRunning = TRUE]])

\* the callback _runLoop hands to setTimeout
timeoutCallback(s) ==
    LET id == CHOOSE n \in 1 .. MaxPending + 1 :
                  /\ n \notin s.frames
                  /\ \A m \in 1 .. n - 1 : m \in s.frames
    IN  IF s.ca.isRunning
        THEN [s EXCEPT !.frames = @ \cup {id}, !.ca.animationFrameId = id]
        ELSE s

\* main.js handleRun: stop when running, else start with the dropdown's step
\* count and the checkbox's flag
handleRun(s, maxSteps, isContinuous) ==
    IF s.ca.isRunning
    THEN endRun(stop(s), "stop")
    ELSE start(s, TRUE, IF isContinuous THEN Null ELSE maxSteps, isContinuous, TRUE)

\* ------------------------------------------------------------ target shapes
\* A target shape: its length, the length of each row (Null for a row that is
\* undefined) and the <<ty, tx>> whose entry is true.
Window == (0 .. TargetDim - 1) \X (0 .. TargetDim - 1)

WellFormed(on) ==
    [length |-> TargetDim, rowLength |-> [r \in 1 .. TargetDim |-> TargetDim], on |-> on]

TCenter == WellFormed({<<2, 2>>})
TPlus == WellFormed({<<2, 2>>, <<1, 2>>, <<3, 2>>, <<2, 1>>, <<2, 3>>})
TFull == WellFormed(Window)
\* new Array(5) with only row 0 filled in
TMissingRows ==
    [length |-> TargetDim,
     rowLength |-> [r \in 1 .. TargetDim |-> IF r = 1 THEN TargetDim ELSE Null],
     on |-> {<<0, 0>>}]
\* the 10x10 target of the older variant
TTenByTen ==
    [length |-> 10, rowLength |-> [r \in 1 .. 10 |-> 10], on |-> {<<2, 2>>}]

\* what main.js can hand to train(): 5x5, at least one pixel set
UiTargets == {TCenter, TPlus}
\* what a caller of the API can hand to train()
ApiTargets == {TFull, TMissingRows, TTenByTen}

\* the shape test of train(), _computeLoss and computeLoss
invalidTarget(targetShape) ==
    targetShape.length # TargetDim \/ targetShape.rowLength[1] # TargetDim

\* --------------------------------------------------------- loss and fitness
\* A JavaScript number as a fraction; null is NullNumber and counts as 0.
NullNumber == [num |-> 0, den |-> 0]
Numerator(v) == v.num
Denominator(v) == IF v.den = 0 THEN 1 ELSE v.den
Less(a, b) == Numerator(a) * Denominator(b) < Numerator(b) * Denominator(a)

RECURSIVE Gcd(_, _)
Gcd(a, b) == IF b = 0 THEN a ELSE Gcd(b, a % b)

\* num / den in lowest terms (den > 0)
Fraction(num, den) == [num |-> num \div Gcd(num, den), den |-> den \div Gcd(num, den)]

\* GeneticAlgorithm._computeLoss / Trainer.computeLoss on the grid
_computeLoss(isTorus, grid, targetShape) ==
    IF invalidTarget(targetShape) THEN [threw |-> TRUE, loss |-> NullNumber]
    ELSE IF \E ty \in 0 .. TargetDim - 1 : targetShape.rowLength[ty + 1] = Null
    THEN [threw |-> TRUE, loss |-> NullNumber]
    ELSE
      LET centerX == FloorHalf(GridW) - HalfTarget
          centerY == FloorHalf(GridH) - HalfTarget
          error(ty, tx) ==
              LET cell == getCell(isTorus, grid, centerX + tx, centerY + ty)
                  targetValue == IF <<ty, tx>> \in targetShape.on THEN 1 ELSE 0
                  actualValue == IF cell.on THEN 1 ELSE 0
              IN  targetValue - actualValue
          squares == Eager([i \in 1 .. TargetDim * TargetDim |->
                        LET e == error((i - 1) \div TargetDim, (i - 1) % TargetDim)
                        IN  e * e])
          totalLoss == SumSeq(squares, TargetDim * TargetDim)
          cellCount == TargetDim * TargetDim
      IN  [threw |-> FALSE, loss |-> [num |-> totalLoss, den |-> cellCount]]

\* the first loop of Game.calculateError: it reads targetShape[y][x] row by
\* row until it finds a pixel, and throws on a row that is missing
scanThrows(targetShape) ==
    \E r \in 0 .. TargetDim - 1 :
        /\ targetShape.rowLength[r + 1] = Null
        /\ \A p \in targetShape.on : p[1] >= r

\* Game.calculateError on the grid
calculateError(isTorus, grid, targetShape) ==
    IF invalidTarget(targetShape) THEN [threw |-> TRUE, loss |-> NullNumber]
    ELSE IF scanThrows(targetShape) THEN [threw |-> TRUE, loss |-> NullNumber]
    ELSE IF targetShape.on = {} THEN [threw |-> FALSE, loss |-> [num |-> 0, den |-> 1]]
    ELSE _computeLoss(isTorus, grid, targetShape)

\* 1.0 / (loss + 0.0001)
fitnessOfLoss(loss) == Fraction(10000 * loss.den, 10000 * loss.num + loss.den)

\* ------------------------------------------------------ random draws
\* tf.randomUniform and tf.randomNormal are drawn from small tables, picked
\* by a seed the environment chooses and by the individual's index.
\* Uniform draws are in hundredths, normal draws in standard deviations.
UniformTable ==
    << Eager([n \in 1 .. NumWeights |-> 99]),
       Eager([n \in 1 .. NumWeights |-> 0]),
       Eager([n \in 1 .. NumWeights |-> IF n % 2 = 0 THEN 70 ELSE 50]),
       Eager([n \in 1 .. NumWeights |-> (n * 37) % 100]) >>

NormalTable ==
    << Eager([n \in 1 .. NumWeights |-> 0]),
       Eager([n \in 1 .. NumWeights |-> IF n = BiasIdx(1) THEN 1 ELSE 0]),
       Eager([n \in 1 .. NumWeights |-> IF n = KernelIdx(InputIdx(5, 0), 1) THEN -1 ELSE 0]),
       Eager([n \in 1 .. NumWeights |-> IF n % 3 = 1 THEN 1 ELSE IF n % 3 = 2 THEN -1 ELSE 0]) >>

randomUniform(seed, i) == UniformTable[((seed + i) % Len(UniformTable)) + 1]
randomNormal(seed, i) == NormalTable[((seed + i) % Len(NormalTable)) + 1]

\* ------------------------------------------------- NeuralNetwork objects
\* _createNetwork followed by getModel().setWeights(w): a new initialised
\* network object holding w; its id is the new length of nets
createNetwork(s, w) ==
    [s EXCEPT !.nets = Append(@, [w |-> w, isInitialized |-> TRUE])]

\* NeuralNetwork.dispose
disposeNetwork(s, id) ==
    IF s.nets[id].isInitialized
    THEN [s EXCEPT !.nets[id].isInitialized = FALSE]
    ELSE s

\* getModel() is null once the network is disposed, so getModel().getWeights()
\* and getModel().setWeights() throw a TypeError
hasModel(s, id) == s.nets[id].isInitialized

\* ------------------------------------------------ GeneticAlgorithm object
DefaultPopulationSize == 30
DefaultMutationRate == 15       \* 0.15, in hundredths
DefaultMutationStrength == 2    \* 0.02, in hundredths
DefaultEliteCount == 2
InitNoiseStd == 10              \* 0.1, in hundredths
CrossoverThreshold == 50        \* 0.5, in hundredths

\* JavaScript's v || d for a number: 0 and NaN (modelled by 0) and undefined
\* (a page input by 0, a property left out of a config by Null) are falsy
Or(v, d) == IF v = 0 \/ v = Null THEN d ELSE v

NoGA == 0

\* GeneticAlgorithm constructor
NewGeneticAlgorithm(config) ==
    [populationSize |-> Or(config.populationSize, DefaultPopulationSize),
     mutationRate |-> Or(config.mutationRate, DefaultMutationRate),
     mutationStrength |-> Or(config.mutationStrength, DefaultMutationStrength),
     eliteCount |-> Or(config.eliteCount, DefaultEliteCount),
     population |-> << >>,
     generation |-> 0,
     isTraining |-> FALSE]

NewIndividual(network) ==
    [network |-> network, fitness |-> NullNumber, loss |-> NullNumber]

\* the loop of _initializePopulation from individual i on
RECURSIVE addIndividuals(_, _, _, _, _)
addIndividuals(s, g, baseWeights, seed, i) ==
    IF i >= s.gas[g].populationSize THEN s
    ELSE
      LET w == IF i = 0 THEN baseWeights
               ELSE Eager([n \in 1 .. NumWeights |->
                        baseWeights[n] + InitNoiseStd * randomNormal(seed, i)[n]])
          s1 == createNetwork(s, w)
          s2 == [s1 EXCEPT !.gas[g].population = Append(@, NewIndividual(Len(s1.nets)))]
      IN  addIndividuals(s2, g, baseWeights, seed, i + 1)

\* GeneticAlgorithm._initializePopulation; baseNetwork is the shared network
_initializePopulation(s, g, seed) ==
    LET s1 == [s EXCEPT !.gas[g].population = << >>]
    IN  IF ~hasModel(s1, SharedNet) THEN [s1 EXCEPT !.threw = TRUE]
        ELSE addIndividuals(s1, g, s1.nets[SharedNet].w, seed, 0)

\* GeneticAlgorithm._evaluateFitness
_evaluateFitness(s, network, targetShape, genSteps) ==
    LET s1 == [s EXCEPT !.cells = _resetToSeedCell(@)]
        originalNetwork == s1.ca.neuralNetwork
        s2 == [s1 EXCEPT !.ca.neuralNetwork = network]
    IN  With([run \in {runSteps(torus, s2.cells, s2.nets[network], genSteps)} |->
        With([l \in {IF run.threw THEN [threw |-> TRUE, loss |-> NullNumber]
                     ELSE _computeLoss(torus, run.cells, targetShape)} |->
        IF l.threw
        THEN [s |-> [s2 EXCEPT !.cells = run.cells,
                               !.threw = TRUE,
                               !.log.evalEnds = Append(@, [threw |-> TRUE,
                                                           original |-> originalNetwork,
                                                           installed |-> s2.ca.neuralNetwork])],
              fitness |-> NullNumber, loss |-> NullNumber]
        ELSE [s |-> [s2 EXCEPT !.cells = run.cells,
                               !.ca.neuralNetwork = originalNetwork,
                               !.log.evals = Append(@, [w |-> s.nets[network].w,
                                                        startCells |-> s1.cells,
                                                        targetShape |-> targetShape,
                                                        genSteps |-> genSteps,
                                                        loss |-> l.loss]),
                               !.log.evalEnds = Append(@, [threw |-> FALSE,
                                                           original |-> originalNetwork,
                                                           installed |-> originalNetwork])],
              fitness |-> fitnessOfLoss(l.loss),
              loss |-> l.loss]])])

\* an evaluation loop that skips an individual whose evaluation throws
RECURSIVE evaluateSkipping(_, _, _, _, _)
evaluateSkipping(s, g, targetShape, genSteps, i) ==
    IF i > Len(s.gas[g].population) THEN s
    ELSE
      With([r \in {_evaluateFitness(s, s.gas[g].population[i].network,
                                    targetShape, genSteps)} |->
          evaluateSkipping(
              IF r.s.threw THEN [r.s EXCEPT !.threw = FALSE]
              ELSE [r.s EXCEPT !.gas[g].population[i].fitness = r.fitness,
                               !.gas[g].population[i].loss = r.loss],
              g, targetShape, genSteps, i + 1)])

\* the evaluation loop of train() from individual i on
RECURSIVE evaluatePopulation(_, _, _, _, _)
evaluatePopulation(s, g, targetShape, genSteps, i) ==
    IF s.threw \/ i > Len(s.gas[g].population) THEN s
    ELSE
      With([r \in {_evaluateFitness(s, s.gas[g].population[i].network,
                                    targetShape, genSteps)} |->
          IF r.s.threw THEN r.s
          ELSE evaluatePopulation(
                  [r.s EXCEPT !.gas[g].population[i].fitness = r.fitness,
                              !.gas[g].population[i].loss = r.loss],
                  g, targetShape, genSteps, i + 1)])

\* the comparator (a, b) => b.fitness - a.fitness is positive
comesAfter(a, b) == Less(a.fitness, b.fitness)

RECURSIVE insertSorted(_, _)
insertSorted(sorted, e) ==
    IF sorted = << >> THEN <<e>>
    ELSE IF comesAfter(Head(sorted), e) THEN <<e>> \o sorted
    ELSE <<Head(sorted)>> \o insertSorted(Tail(sorted), e)

RECURSIVE sortFrom(_, _, _)
sortFrom(population, sorted, i) ==
    IF i > Len(population) THEN sorted
    ELSE sortFrom(population, insertSorted(sorted, population[i]), i + 1)

\* a sort that leaves the population as it is
keepOrder(population) == population

\* population.sort((a, b) => b.fitness - a.fitness): a stable sort, highest
\* fitness first
sortPopulation(population) == sortFrom(population, << >>, 1)

\* getBestNetwork that takes the last individual
lastNetwork(s, g) ==
    IF Len(s.gas[g].population) = 0 THEN [s |-> s, network |-> Null]
    ELSE LET s1 == [s EXCEPT !.gas[g].population = sortPopulation(@)]
         IN  [s |-> s1,
              network |-> s1.gas[g].population[Len(s1.gas[g].population)].network]

\* GeneticAlgorithm.getBestNetwork: sorts in place, Null for an empty population
getBestNetwork(s, g) ==
    IF Len(s.gas[g].population) = 0 THEN [s |-> s, network |-> Null]
    ELSE LET s1 == [s EXCEPT !.gas[g].population = sortPopulation(@)]
         IN  [s |-> s1, network |-> s1.gas[g].population[1].network]

\* a crossover whose two masks both hold at the threshold
crossoverWeightsOverlapping(w1, w2, mask) ==
    Eager([n \in 1 .. NumWeights |->
        LET fromP1 == IF mask[n] >= CrossoverThreshold THEN 1 ELSE 0
            fromP2 == IF mask[n] <= CrossoverThreshold THEN 1 ELSE 0
        IN  w1[n] * fromP1 + w2[n] * fromP2])

\* GeneticAlgorithm._crossover, the weights of the child
crossoverWeights(w1, w2, mask) ==
    Eager([n \in 1 .. NumWeights |->
        LET fromP1 == IF mask[n] > CrossoverThreshold THEN 1 ELSE 0
            fromP2 == IF mask[n] <= CrossoverThreshold THEN 1 ELSE 0
        IN  w1[n] * fromP1 + w2[n] * fromP2])

\* GeneticAlgorithm._mutate, the mutated weights
mutateWeights(w, mutationRate, mutationStrength, mutationMask, noise) ==
    Eager([n \in 1 .. NumWeights |->
        LET shouldMutate == IF mutationMask[n] < mutationRate THEN 1 ELSE 0
        IN  w[n] + mutationStrength * noise[n] * shouldMutate])

\* the weights of a freshly initialised network, overwritten before any use
FreshWeights == Eager([n \in 1 .. NumWeights |-> 0])

\* GeneticAlgorithm._crossover on two network objects: the child is created
\* first; getModel() of a disposed parent is null and getWeights() throws
_crossover(s, parent1, parent2, mask) ==
    LET s1 == createNetwork(s, FreshWeights)
        child == Len(s1.nets)
    IN  IF ~hasModel(s1, parent1) \/ ~hasModel(s1, parent2)
        THEN [s1 EXCEPT !.threw = TRUE]
        ELSE [s1 EXCEPT !.nets[child].w =
                 crossoverWeights(s1.nets[parent1].w, s1.nets[parent2].w, mask)]

\* a next generation without elites
keepNoElites(ga) == 0

\* the elite loop's bound
elitesToKeep(ga) == ga.eliteCount

\* the elite loop of train() from elite i on; r is [s, next]
RECURSIVE addElites(_, _, _)
addElites(r, g, i) ==
    IF r.s.threw \/ i >= elitesToKeep(r.s.gas[g]) THEN r
    ELSE
      LET population == r.s.gas[g].population
          s1 == createNetwork(r.s, FreshWeights)
          eliteNetwork == Len(s1.nets)
      IN  IF i + 1 > Len(population) \/ ~hasModel(s1, population[i + 1].network)
          THEN [s |-> [s1 EXCEPT !.threw = TRUE], next |-> r.next]
          ELSE addElites(
                  [s |-> [s1 EXCEPT !.nets[eliteNetwork].w =
                                        s1.nets[population[i + 1].network].w],
                   next |-> Append(r.next, NewIndividual(eliteNetwork))],
                  g, i + 1)

\* the breeding loop of train() from child i on: _crossover, then _mutate
RECURSIVE addChildren(_, _, _, _, _, _)
addChildren(r, g, parent1, parent2, seed, i) ==
    IF r.s.threw \/ i >= r.s.gas[g].populationSize THEN r
    ELSE
      LET ga == r.s.gas[g]
          s1 == createNetwork(r.s, FreshWeights)
          child == Len(s1.nets)
          crossed == crossoverWeights(s1.nets[parent1].w, s1.nets[parent2].w,
                                      randomUniform(seed, i))
          mutated == mutateWeights(crossed, ga.mutationRate, ga.mutationStrength,
                                   randomUniform(seed + 1, i), randomNormal(seed, i))
      IN  IF ~hasModel(s1, parent1) \/ ~hasModel(s1, parent2)
          THEN [s |-> [s1 EXCEPT !.threw = TRUE], next |-> r.next]
          ELSE addChildren(
                  [s |-> [s1 EXCEPT !.nets[child].w = mutated],
                   next |-> Append(r.next, NewIndividual(child))],
                  g, parent1, parent2, seed, i + 1)

\* disposes population[i].network for the 0-based i at and after `from`
RECURSIVE disposeFrom(_, _, _)
disposeFrom(s, population, from) ==
    IF from + 1 > Len(population) THEN s
    ELSE disposeFrom(disposeNetwork(s, population[from + 1].network), population, from + 1)

\* the "create next generation" block of train()
nextGeneration(s, g, seed) ==
    LET population == s.gas[g].population
    IN  With([elites \in {addElites([s |-> s, next |-> << >>], g, 0)} |->
        IF elites.s.threw THEN elites.s
        ELSE IF Len(population) < 2 THEN [elites.s EXCEPT !.threw = TRUE]
        ELSE
          LET parent1 == population[1].network
              parent2 == population[2].network
          IN  With([bred \in {addChildren(elites, g, parent1, parent2, seed,
                                          s.gas[g].eliteCount)} |->
              IF bred.s.threw THEN bred.s
              ELSE [disposeFrom(bred.s, population, s.gas[g].eliteCount)
                      EXCEPT !.gas[g].population = bred.next]])])

\* GeneticAlgorithm.stopTraining
gaStopTraining(s, g) ==
    [s EXCEPT !.gas[g].isTraining = FALSE,
              !.calls = [c \in DOMAIN s.calls |->
                            IF s.calls[c].ga = g /\ s.calls[c].status = "sleeping"
                            THEN [s.calls[c] EXCEPT !.stopped = TRUE]
                            ELSE s.calls[c]]]

\* GeneticAlgorithm.dispose
gaDispose(s, g) ==
    [disposeFrom(gaStopTraining(s, g), s.gas[g].population, 0)
        EXCEPT !.gas[g].population = << >>]

\* ---------------------------------------------------------------- Trainer
\* what a progress callback may return
CallbackReturns == {"true", "false", "undefined", "zero"}

\* new Trainer(grid, neuralNetwork, cellularAutomata, config) as main.js
\* builds it; its constructor makes a first GeneticAlgorithm (object 1)
NewTrainer ==
    [populationSize |-> DefaultPopulationSize,
     mutationRate |-> DefaultMutationRate,
     mutationStrength |-> DefaultMutationStrength,
     eliteCount |-> DefaultEliteCount,
     isTraining |-> FALSE,
     trainingStep |-> 0,
     lossHistory |-> << >>,
     geneticAlgorithm |-> 1]

\* Trainer.stopTraining
stopTraining(s) ==
    LET s1 == [s EXCEPT !.trainer.isTraining = FALSE]
    IN  IF s1.trainer.geneticAlgorithm # NoGA
        THEN gaStopTraining(s1, s1.trainer.geneticAlgorithm)
        ELSE s1

\* Trainer.dispose
trainerDispose(s) ==
    LET s1 == stopTraining(s)
        s2 == IF s1.trainer.geneticAlgorithm # NoGA
              THEN [gaDispose(s1, s1.trainer.geneticAlgorithm)
                       EXCEPT !.trainer.geneticAlgorithm = NoGA]
              ELSE s1
    IN  [s2 EXCEPT !.trainer.lossHistory = << >>]

\* Trainer.train after the await, up to the copy: the best network of the
\* trainer's current GeneticAlgorithm is copied into the shared network
installBestNetwork(s) ==
    IF s.trainer.geneticAlgorithm = NoGA THEN [s EXCEPT !.threw = TRUE]
    ELSE
    With([best \in {getBestNetwork(s, s.trainer.geneticAlgorithm)} |->
        IF best.network = Null THEN best.s
        ELSE IF ~hasModel(best.s, best.network) \/ ~hasModel(best.s, SharedNet)
        THEN [best.s EXCEPT !.threw = TRUE]
        ELSE [best.s EXCEPT !.nets[SharedNet].w = best.s.nets[best.network].w]])

\* the progress callback main.js hands to Trainer.train: shows the best
\* performer on the test grid and returns shouldContinue
mainProgressCallback(s, genSteps, shouldContinue) ==
    LET seeded == _resetToSeedCell(s.cells)
    IN  With([run \in {runSteps(torus, seeded, s.nets[s.ca.neuralNetwork], genSteps)} |->
        [s |-> [s EXCEPT !.cells = run.cells, !.threw = run.threw],
         ret |-> shouldContinue]])

\* the callback Trainer.train hands to GeneticAlgorithm.train; `ret` is what
\* a client's progress callback returns
trainerProgressCallback(s, c, generation, bestLoss, ret) ==
    LET s1 == [s EXCEPT !.trainer.trainingStep = generation,
                        !.trainer.lossHistory = Append(@, bestLoss)]
    IN  With([s2 \in {installBestNetwork(s1)} |->
        IF s2.threw THEN [s |-> s2, ret |-> "undefined"]
        ELSE IF s.calls[c].callback = "main"
        THEN mainProgressCallback(s2, s.calls[c].uiGenSteps, "true")
        ELSE IF s.calls[c].callback = "client"
        THEN [s |-> s2, ret |-> ret]
        ELSE [s |-> s2, ret |-> "true"]])

\* a rejected train(): the error goes to the promise; handleTrain's catch
\* re-enables the Train button
rejectCall(s, c) ==
    [s EXCEPT !.threw = FALSE,
              !.calls[c].status = "rejected",
              !.log.rejected = @ \cup {c},
              !.trainButton.disabled = IF s.calls[c].callback = "main" THEN FALSE ELSE @]

\* GeneticAlgorithm.train past its loop, then Trainer.train past its await
afterLoop(s, c) ==
    LET s1 == [s EXCEPT !.gas[s.calls[c].ga].isTraining = FALSE,
                        !.log.gaReturns = Append(@, [call |-> c,
                                                     losses |-> s.calls[c].lossHistory])]
    IN  IF s.calls[c].callback = "direct"
        THEN [s1 EXCEPT !.calls[c].status = "resolved", !.log.resolved = @ \cup {c}]
        ELSE
        With([s2 \in {installBestNetwork(s1)} |->
        IF s2.threw THEN rejectCall(s2, c)
        ELSE [s2 EXCEPT !.trainer.isTraining = FALSE,
                        !.calls[c].status = "resolved",
                        !.log.resolved = @ \cup {c},
                        !.trainButton.disabled =
                            IF s.calls[c].callback = "main" THEN FALSE ELSE @]])

\* a loop that ignores what the callback returns
callbackNeverStops(ret) == FALSE

\* shouldContinue = progressCallback(...) !== false, negated
callbackStops(ret) == ret = "false"

\* a loop that ends at its generation count only
loopEndsAtCount(call, ga) == ~(call.gen < call.numGenerations)

\* the loop of GeneticAlgorithm.train ends: gen < numGenerations fails, or
\* if (!this.isTraining) break
loopEnds(call, ga) == ~(call.gen < call.numGenerations) \/ ~ga.isTraining

\* one turn of the loop of GeneticAlgorithm.train for call c, from its test
\* to its await
generationStep(s, c, ret, seed) ==
    LET call == s.calls[c]
        g == call.ga
    IN  IF loopEnds(call, s.gas[g])
        THEN afterLoop(s, c)
        ELSE
          With([s2 \in {evaluatePopulation([s EXCEPT !.gas[g].generation = call.gen + 1],
                                            g, call.targetShape, call.genSteps, 1)} |->
          IF s2.threw THEN rejectCall(s2, c)
          ELSE IF Len(s2.gas[g].population) = 0
          THEN rejectCall([s2 EXCEPT !.threw = TRUE], c)
          ELSE
          With([s3 \in {[s2 EXCEPT !.gas[g].population = sortPopulation(@)]} |->
          With([bestLoss \in {s3.gas[g].population[1].loss} |->
          With([s4 \in {[s3 EXCEPT
                           !.calls[c].lossHistory = Append(@, bestLoss),
                           !.lastEval = Eager([i \in 1 .. Len(s3.gas[g].population) |->
                                           [w |-> s3.nets[s3.gas[g].population[i].network].w,
                                            loss |-> s3.gas[g].population[i].loss]])]} |->
          With([cb \in {IF call.callback = "direct"
                        THEN [s |-> s4, ret |-> "true"]
                        ELSE trainerProgressCallback(s4, c, call.gen + 1, bestLoss, ret)} |->
          IF cb.s.threw THEN rejectCall(cb.s, c)
          ELSE
          With([s5 \in {IF call.callback = "direct" THEN cb.s
                        ELSE [cb.s EXCEPT !.log.cbReturns = Append(@, cb.ret),
                                          !.calls[c].cbReturns = Append(@, cb.ret)]} |->
          IF callbackStops(cb.ret)
          THEN afterLoop([s5 EXCEPT !.gas[g].isTraining = FALSE], c)
          ELSE
          With([s6 \in {IF call.gen < call.numGenerations - 1
                        THEN nextGeneration(s5, g, seed)
                        ELSE s5} |->
          IF s6.threw THEN rejectCall(s6, c)
          ELSE [s6 EXCEPT !.calls[c].status = "sleeping"]])])])])])])])

\* the continuation of the loop's await: gen++, then the next turn
resumeTrain(s, c, ret, seed) ==
    generationStep([s EXCEPT !.calls[c].gen = @ + 1], c, ret, seed)

\* GeneticAlgorithm.train up to its first await
gaTrain(s, c, ret, seed) ==
    LET g == s.calls[c].ga
    IN  IF invalidTarget(s.calls[c].targetShape)
        THEN rejectCall([s EXCEPT !.threw = TRUE], c)
        ELSE
          With([s2 \in {_initializePopulation(
                            [s EXCEPT !.gas[g].isTraining = TRUE, !.gas[g].generation = 0],
                            g, seed)} |->
              IF s2.threw THEN rejectCall(s2, c)
              ELSE generationStep(s2, c, ret, seed + 2)])

\* a client calls GeneticAlgorithm.train on object g itself, without a
\* progress callback
gaTrainDirect(s, g, targetShape, numGenerations, genSteps, seed) ==
    LET c == Len(s.calls) + 1
        s0 == [s EXCEPT !.calls = Append(@,
                  [ga |-> g, targetShape |-> targetShape,
                   numGenerations |-> numGenerations, genSteps |-> genSteps,
                   uiGenSteps |-> genSteps, callback |-> "direct",
                   gen |-> 0, lossHistory |-> << >>, cbReturns |-> << >>,
                   status |-> "running", stopped |-> FALSE])]
    IN  gaTrain(s0, c, "true", seed)

\* Trainer.train up to its first await; dom is what the page's inputs hold
train(s, targetShape, numGenerations, callback, dom, ret, seed) ==
    LET c == Len(s.calls) + 1
        s0 == [s EXCEPT !.calls = Append(@,
                  [ga |-> NoGA, targetShape |-> targetShape,
                   numGenerations |-> numGenerations, genSteps |-> dom.genSteps,
                   uiGenSteps |-> dom.genSteps, callback |-> callback,
                   gen |-> 0, lossHistory |-> << >>, cbReturns |-> << >>,
                   status |-> "running", stopped |-> FALSE])]
    IN  IF ~s0.nets[SharedNet].isInitialized \/ invalidTarget(targetShape)
        THEN rejectCall([s0 EXCEPT !.threw = TRUE], c)
        ELSE
          LET s1 == [s0 EXCEPT !.trainer.populationSize = dom.populationSize,
                               !.trainer.mutationRate = dom.mutationRate,
                               !.trainer.mutationStrength = dom.mutationStrength,
                               !.trainer.eliteCount = dom.eliteCount]
          IN  With([s2 \in {IF s1.trainer.geneticAlgorithm # NoGA
                            THEN gaDispose(s1, s1.trainer.geneticAlgorithm)
                            ELSE s1} |->
              With([s3 \in {[s2 EXCEPT !.gas = Append(@, NewGeneticAlgorithm(
                                      [populationSize |-> s1.trainer.populationSize,
                                       mutationRate |-> s1.trainer.mutationRate,
                                       mutationStrength |-> s1.trainer.mutationStrength,
                                       eliteCount |-> s1.trainer.eliteCount]))]} |->
              gaTrain([s3 EXCEPT !.trainer.geneticAlgorithm = Len(s3.gas),
                                 !.trainer.isTraining = TRUE,
                                 !.calls[c].ga = Len(s3.gas)], c, ret, seed)])])

\* main.js handleTrain: stops a training in progress, else trains on the
\* page's target shape
handleTrain(s, targetShape, numGenerations, dom, seed) ==
    IF s.trainer.isTraining
    THEN [stopTraining(s) EXCEPT !.trainButton.disabled = FALSE,
                                 !.cells = _resetToSeedCell(@)]
    ELSE
      LET s1 == IF s.ca.isRunning THEN endRun(stop(s), "stop") ELSE s
          s2 == [s1 EXCEPT !.trainButton.disabled = TRUE]
      IN  train(s2, targetShape, numGenerations, "main", dom, "true", seed)

\* main.js handleClear
handleClear(s) ==
    LET s1 == IF s.ca.isRunning THEN endRun(stop(s), "stop") ELSE s
    IN  [s1 EXCEPT !.cells = _resetToSeedCell(@)]

\* ------------------------------------------------------------- more bounds
MaxGens == 2            \* largest numGenerations explored
MaxGenSteps == 2        \* largest genSteps explored for a training
MaxPop == 3             \* largest populationSize explored
MaxCalls == 1           \* train() calls explored in one behaviour
NumSeeds == 2           \* seeds of the random draws explored per task

\* the options of the genSteps dropdown explored for a run
StepOptions == 1 .. MaxSteps
\* what the page's inputs can hold when train() reads them (0: empty or 0)
Doms ==
    {[genSteps |-> MaxGenSteps - d, populationSize |-> MaxPop - d,
      mutationRate |-> 0, mutationStrength |-> 0, eliteCount |-> d] : d \in {0, 1}}

\* ------------------------------------------------------------------- Init
\* main.js init: a Grid with the seed cell, an initialised network, the
\* CellularAutomata and the Trainer
Init ==
    /\ torus \in BOOLEAN
    /\ cells = setCell(NewGrid, FloorHalf(GridW), FloorHalf(GridH), TRUE, NoVector)
    /\ \E w \in InitWeights : nets = << [w |-> w, isInitialized |-> TRUE] >>
    /\ ca = NewCellularAutomata
    /\ timeouts = 0
    /\ frames = {}
    /\ gas = << NewGeneticAlgorithm([populationSize |-> DefaultPopulationSize,
                                     mutationRate |-> DefaultMutationRate,
                                     mutationStrength |-> DefaultMutationStrength,
                                     eliteCount |-> DefaultEliteCount]) >>
    /\ trainer = NewTrainer
    /\ calls = << >>
    /\ trainButton = [disabled |-> FALSE]
    /\ lastRun = NoRun
    /\ lastEval = << >>
    /\ ev = [kind |-> "init", uncaught |-> FALSE, log |-> EmptyLog]
    /\ preCells = cells

\* ---------------------------------------------------------------- actions
\* a click on Run
HandleRun ==
    \E maxSteps \in StepOptions, isContinuous \in BOOLEAN :
        /\ ca.isRunning \/ timeouts + Cardinality(frames) < MaxPending
        /\ Commit(handleRun(World, maxSteps, isContinuous), "handleRun")

\* a setTimeout of _runLoop expires
TimeoutFires ==
    /\ timeouts > 0
    /\ Commit(timeoutCallback([World EXCEPT !.timeouts = @ - 1]), "timeout")

\* the browser runs a requested animation frame
FrameFires ==
    \E id \in frames :
        /\ ca.isRunning => ca.currentStep < MaxSteps
        /\ Commit(_runLoop([World EXCEPT !.frames = @ \ {id}]), "frame")

\* a click on Clear
HandleClear ==
    Commit(handleClear(World), "handleClear")

\* a client disposes the shared network
NetDispose ==
    /\ nets[SharedNet].isInitialized
    /\ Commit(disposeNetwork(World, SharedNet), "netDispose")

\* a click on Train (a disabled button delivers no click)
HandleTrain ==
    /\ ~trainButton.disabled
    /\ trainer.isTraining \/ Len(calls) < MaxCalls
    /\ \E targetShape \in UiTargets, numGenerations \in 1 .. MaxGens, dom \in Doms,
          seed \in 1 .. NumSeeds :
            Commit(handleTrain(World, targetShape, numGenerations, dom, seed), "handleTrain")

\* a client calls Trainer.train with its own callback, or with none
ApiTrain ==
    /\ Len(calls) < MaxCalls
    /\ \E targetShape \in ApiTargets, numGenerations \in 1 .. MaxGens, dom \in Doms,
          callback \in {"client", "none"}, ret \in CallbackReturns, seed \in 1 .. NumSeeds :
            /\ callback = "none" => ret = "true"
            /\ Commit(train(World, targetShape, numGenerations, callback, dom, ret, seed),
                      "train")

\* a client calls Trainer.stopTraining
StopTraining ==
    /\ trainer.isTraining
    /\ Commit(stopTraining(World), "stopTraining")

\* the 10 ms sleep of a train() call ends
TrainWake ==
    \E c \in 1 .. Len(calls), ret \in CallbackReturns, seed \in 1 .. NumSeeds :
        /\ calls[c].status = "sleeping"
        /\ calls[c].callback # "client" => ret = "true"
        /\ Commit(resumeTrain(World, c, ret, seed), "trainWake")

\* the run loop and the handlers that start and stop it
NextRun ==
    \/ HandleRun
    \/ TimeoutFires
    \/ FrameFires
    \/ HandleClear
    \/ NetDispose

SpecRun == Init /\ [][NextRun]_vars

\* training
NextTrain ==
    \/ HandleTrain
    \/ ApiTrain
    \/ StopTraining
    \/ TrainWake
    \/ NetDispose

SpecTrain == Init /\ [][NextTrain]_vars

\* ------------------------------------------------- the Grid and loss API
\* the 5x5 target whose pixels are the on flags getCell returns for the loss
\* window of the grid
WindowTarget(grid) ==
    WellFormed({p \in Window :
        getCell(torus, grid, FloorHalf(GridW) - HalfTarget + p[2],
                             FloorHalf(GridH) - HalfTarget + p[1]).on})

\* the target with no pixel
TEmpty == WellFormed({})

\* the targets a client hands to a loss function
LossTargets(grid) ==
    {TEmpty, TCenter, TPlus, TFull, TMissingRows, TTenByTen, WindowTarget(grid)}

\* GeneticAlgorithm._computeLoss, Trainer.computeLoss, Game.calculateError
Evaluators == {"_computeLoss", "computeLoss", "calculateError"}

evaluate(evaluator, isTorus, grid, targetShape) ==
    IF evaluator = "calculateError"
    THEN calculateError(isTorus, grid, targetShape)
    ELSE _computeLoss(isTorus, grid, targetShape)

\* the coordinates, flags and vectors a client hands to setCell: in range and
\* one off each edge; no vector, a vector of K floats, one too short, one
\* too long
SetXs == {-1, 0, FloorHalf(GridW), GridW}
SetYs == {-1, FloorHalf(GridH), GridH}
SetVectors == {NoVector, <<1, -1>>, <<1>>, <<1, -1, 1>>}

\* the coordinates a client hands to getCell: every column from more than one
\* grid width left of the grid to more than one right of it; a row inside
\* the grid, the rows next to its edges and one more than a grid height away
GetXs == (0 - GridW - 1) .. (2 * GridW)
GetYs == {0 - GridH - 1, -1, FloorHalf(GridH), GridH}

\* a client calls grid.getCell
GridGetCell ==
    \E x \in GetXs, y \in GetYs :
        Commit([World EXCEPT !.log.api =
                    << [op |-> "getCell", x |-> x, y |-> y,
                        cell |-> getCell(torus, cells, x, y),
                        object |-> getCellObject(torus, x, y)] >>],
               "getCell")

\* a client calls grid.getNeighborInput for a cell of the grid
GridNeighborInput ==
    \E p \in Pos :
        Commit([World EXCEPT !.log.api =
                    << [op |-> "getNeighborInput", x |-> p[1], y |-> p[2],
                        input |-> getNeighborInput(torus, cells, p[1], p[2])] >>],
               "getNeighborInput")

\* a client calls a loss function
ComputeLoss ==
    \E evaluator \in Evaluators, targetShape \in LossTargets(cells) :
        LET r == evaluate(evaluator, torus, cells, targetShape)
        IN  Commit([World EXCEPT !.threw = r.threw,
                                 !.log.api = << [op |-> evaluator,
                                                 targetShape |-> targetShape,
                                                 threw |-> r.threw,
                                                 loss |-> r.loss] >>],
                   "loss")

\* a client calls grid.setCell
GridSetCell ==
    \E x \in SetXs, y \in SetYs, on \in BOOLEAN, stateVector \in SetVectors :
        Commit([World EXCEPT !.cells = setCell(@, x, y, on, stateVector),
                             !.log.api = << [op |-> "setCell", x |-> x, y |-> y,
                                             on |-> on,
                                             stateVector |-> stateVector] >>],
               "setCell")

\* a client calls grid.clear
GridClear ==
    Commit([World EXCEPT !.cells = clear(@),
                         !.log.api = << [op |-> "clear"] >>], "clear")

\* the Grid and the loss functions, called by a client
NextGrid ==
    \/ GridSetCell
    \/ GridClear
    \/ GridGetCell
    \/ GridNeighborInput
    \/ ComputeLoss

SpecGrid == Init /\ [][NextGrid]_vars

\* ------------------------------------------------ the dense conversions
NumTensors == 6         \* tensors a client hands to fromTensor

\* the n-th tensor a client hands to fromTensor: the on/off channel of a cell
\* is 0, 0.5, 1 or 1.5 and its state channels are -1, 0 or 1
TensorSample(n) ==
    tensor3d(Eager([i \in 1 .. GridH * GridW * (1 + K) |->
                 LET cell == (i - 1) \div (1 + K)
                     c == (i - 1) % (1 + K)
                 IN  IF c = 0 THEN (cell * n + n) % 4
                     ELSE TensorUnit * (((cell + c + n) % 3) - 1)]),
             GridH, GridW, 1 + K)

\* a client calls grid.fromTensor (the torus Grid has the dense conversions)
GridFromTensor ==
    /\ torus
    /\ \E n \in 1 .. NumTensors :
          Commit([World EXCEPT !.cells = fromTensor(@, TensorSample(n)),
                               !.log.api = << [op |-> "fromTensor",
                                               tensor |-> TensorSample(n)] >>],
                 "fromTensor")

\* a client calls grid.toTensor
GridToTensor ==
    /\ torus
    /\ Commit([World EXCEPT !.log.api = << [op |-> "toTensor",
                                            tensor |-> toTensor(cells)] >>],
              "toTensor")

\* a client calls grid.fromTensor(grid.toTensor())
GridRoundTrip ==
    /\ torus
    /\ Commit([World EXCEPT !.cells = fromTensor(@, toTensor(@)),
                            !.log.api = << [op |-> "roundTrip"] >>],
              "roundTrip")

\* the input row updateTensor(grid.toTensor()) builds for one cell
TensorInputRow ==
    /\ torus
    /\ \E p \in Pos :
          Commit([World EXCEPT !.log.api =
                      << [op |-> "inputBatch", x |-> p[1], y |-> p[2],
                          row |-> inputBatch(toTensor(cells))[p[2] * GridW + p[1] + 1]] >>],
                 "inputBatch")

\* the Grid's dense conversions and the tensor path's neighbourhoods
NextTensor ==
    \/ GridFromTensor
    \/ GridToTensor
    \/ GridRoundTrip
    \/ TensorInputRow
    \/ GridClear

SpecTensor == Init /\ [][NextTensor]_vars

\* ------------------------------------------------------------- crossover
MaxNets == 3            \* network objects explored in the crossover spec

\* the parameters of the two networks a crossover is first called on: the
\* initial ones, and two whose elements are all non-zero and all different
ParentWeights ==
    InitWeights \cup {Eager([n \in 1 .. NumWeights |-> n]),
                      Eager([n \in 1 .. NumWeights |-> 0 - 2 * n])}

\* as Init, with two initialised networks (the top two of a population)
InitCrossover ==
    /\ torus \in BOOLEAN
    /\ cells = setCell(NewGrid, FloorHalf(GridW), FloorHalf(GridH), TRUE, NoVector)
    /\ \E w1 \in ParentWeights, w2 \in ParentWeights :
          nets = << [w |-> w1, isInitialized |-> TRUE],
                    [w |-> w2, isInitialized |-> TRUE] >>
    /\ ca = NewCellularAutomata
    /\ timeouts = 0
    /\ frames = {}
    /\ gas = << NewGeneticAlgorithm([populationSize |-> DefaultPopulationSize,
                                     mutationRate |-> DefaultMutationRate,
                                     mutationStrength |-> DefaultMutationStrength,
                                     eliteCount |-> DefaultEliteCount]) >>
    /\ trainer = NewTrainer
    /\ calls = << >>
    /\ trainButton = [disabled |-> FALSE]
    /\ lastRun = NoRun
    /\ lastEval = << >>
    /\ ev = [kind |-> "init", uncaught |-> FALSE, log |-> EmptyLog]
    /\ preCells = cells

\* a client calls geneticAlgorithm._crossover on two of the networks
Crossover ==
    /\ Len(nets) < MaxNets
    /\ \E parent1 \in 1 .. Len(nets), parent2 \in 1 .. Len(nets),
          seed \in 1 .. NumSeeds, i \in 0 .. MaxPop - 1 :
            LET s == _crossover(World, parent1, parent2, randomUniform(seed, i))
            IN  Commit([s EXCEPT !.log.api = << [op |-> "crossover",
                                                parent1 |-> parent1,
                                                parent2 |-> parent2,
                                                child |-> Len(s.nets),
                                                threw |-> s.threw] >>],
                       "crossover")

\* a client disposes one of the networks
CrossoverDispose ==
    \E id \in 1 .. Len(nets) :
        /\ nets[id].isInitialized
        /\ Commit(disposeNetwork(World, id), "netDispose")

NextCrossover ==
    \/ Crossover
    \/ CrossoverDispose

SpecCrossover == InitCrossover /\ [][NextCrossover]_vars

\* ------------------------------------------------- population parameters
\* what the page's inputs can hold: every population size and elite count
\* from 1 to MaxPop, the shortest evaluation
BreedDoms ==
    {[genSteps |-> 1, populationSize |-> populationSize,
      mutationRate |-> 0, mutationStrength |-> 0, eliteCount |-> eliteCount] :
        populationSize \in 1 .. MaxPop, eliteCount \in 1 .. MaxPop}

\* a client calls Trainer.train without a callback, on a well-formed target
BreedTrain ==
    /\ Len(calls) < MaxCalls
    /\ \E numGenerations \in 1 .. MaxGens, dom \in BreedDoms, seed \in 1 .. NumSeeds :
          Commit(train(World, TPlus, numGenerations, "none", dom, "true", seed), "train")

\* training under every population size and elite count
NextBreed ==
    \/ BreedTrain
    \/ TrainWake

SpecBreed == Init /\ [][NextBreed]_vars

\* ------------------------------------------------- the network lifecycle
MaxClientNets == 1      \* networks a client constructs besides the shared one

\* NeuralNetwork constructor: no model yet
NewNeuralNetwork == [w |-> FreshWeights, isInitialized |-> FALSE]

\* NeuralNetwork.initialize: w is what the random initialisers draw
initialize(s, id, w) ==
    IF s.nets[id].isInitialized
    THEN s
    ELSE [s EXCEPT !.nets[id] = [w |-> w, isInitialized |-> TRUE]]

\* a client constructs a NeuralNetwork
NetConstruct ==
    /\ Len(nets) < 1 + MaxClientNets
    /\ Commit([World EXCEPT !.nets = Append(@, NewNeuralNetwork)], "netConstruct")

\* the parameters explored for a network a client initialises
InitializeWeights == {WGrow}

\* a client calls initialize() on a network
NetInitialize ==
    \E id \in 1 .. Len(nets), w \in InitializeWeights :
        Commit(initialize(World, id, w), "netInitialize")

\* a client calls update() of a CellularAutomata made on the grid and one of
\* the networks
ClientUpdate ==
    \E id \in 1 .. Len(nets) :
        LET r == update(torus, cells, nets[id])
        IN  Commit([World EXCEPT !.cells = r.cells,
                                 !.threw = r.threw,
                                 !.log.api = << [op |-> "update", net |-> id,
                                                 threw |-> r.threw] >>],
                   "clientUpdate")

\* a client calls predict() or predictBatch() of a network on the inputs of
\* the grid's cells
ClientPredict ==
    \E id \in 1 .. Len(nets), batch \in BOOLEAN :
        LET inputs == Eager([i \in 1 .. Len(RowMajor) |->
                         getNeighborInput(torus, cells, RowMajor[i][1], RowMajor[i][2])])
            r == IF batch THEN predictBatchOf(nets[id], inputs)
                 ELSE predict(nets[id], inputs[1])
        IN  Commit([World EXCEPT !.threw = r.threw,
                                 !.log.api = << [op |-> IF batch THEN "predictBatch"
                                                        ELSE "predict",
                                                 net |-> id,
                                                 threw |-> r.threw] >>],
                   "clientPredict")

\* a client calls updateTensor(grid.toTensor()) of a CellularAutomata made on
\* the torus grid and one of the networks
ClientUpdateTensor ==
    /\ torus
    /\ \E id \in 1 .. Len(nets) :
          LET r == updateTensor(nets[id], toTensor(cells))
          IN  Commit([World EXCEPT !.threw = r.threw,
                                   !.log.api = << [op |-> "updateTensor", net |-> id,
                                                   threw |-> r.threw,
                                                   tensor |-> r.tensor] >>],
                     "clientUpdateTensor")

\* networks constructed, initialised, disposed and used by a client
NextNet ==
    \/ NetConstruct
    \/ NetInitialize
    \/ CrossoverDispose
    \/ ClientUpdate
    \/ ClientPredict
    \/ ClientUpdateTensor

SpecNet == Init /\ [][NextNet]_vars

\* ------------------------------------------------- the run loop's API
\* a client calls start() with its own arguments
StartArgs ==
    {[callback |-> TRUE, maxSteps |-> 1, isContinuous |-> FALSE,
      completionCallback |-> TRUE],
     [callback |-> TRUE, maxSteps |-> 2, isContinuous |-> FALSE,
      completionCallback |-> FALSE],
     [callback |-> FALSE, maxSteps |-> 1, isContinuous |-> TRUE,
      completionCallback |-> TRUE],
     [callback |-> TRUE, maxSteps |-> Null, isContinuous |-> TRUE,
      completionCallback |-> FALSE],
     [callback |-> FALSE, maxSteps |-> Null, isContinuous |-> FALSE,
      completionCallback |-> TRUE]}

ApiStart ==
    \E a \in StartArgs :
        /\ ca.isRunning \/ timeouts + Cardinality(frames) < MaxPending
        /\ Commit(start(World, a.callback, a.maxSteps, a.isContinuous,
                        a.completionCallback), "start")

\* a client calls stop()
ApiStop ==
    Commit(endRun(stop(World), "stop"), "stop")

\* start() and stop() called by a client, and the tasks the loop leaves behind
NextLoop ==
    \/ ApiStart
    \/ ApiStop
    \/ TimeoutFires
    \/ FrameFires
    \/ NetDispose

SpecLoop == Init /\ [][NextLoop]_vars

\* ------------------------------------- a GeneticAlgorithm of the client's
MaxGaCalls == 2         \* train() calls explored on one GeneticAlgorithm

\* the configurations a client constructs a GeneticAlgorithm with (0: the
\* value 0, Null: the property is left out)
GaConfigs ==
    {[populationSize |-> 2, mutationRate |-> 0, mutationStrength |-> 0, eliteCount |-> 1],
     [populationSize |-> 2, mutationRate |-> 10, mutationStrength |-> 1, eliteCount |-> 0],
     [populationSize |-> 3, mutationRate |-> Null, mutationStrength |-> Null,
      eliteCount |-> 1]}

\* the client's GeneticAlgorithm is object 2; object 1 is the Trainer's
ClientGA == 2

\* new GeneticAlgorithm(grid, baseNetwork, cellularAutomata, config)
GaConstruct ==
    /\ Len(gas) < ClientGA
    /\ \E config \in GaConfigs :
          Commit([World EXCEPT !.gas = Append(@, NewGeneticAlgorithm(config)),
                               !.log.api = << [op |-> "newGA", config |-> config] >>],
                 "newGA")

\* geneticAlgorithm.train(targetShape, numGenerations, genSteps)
GaTrain ==
    /\ Len(gas) >= ClientGA
    /\ Len(calls) < MaxGaCalls
    /\ \E numGenerations \in 1 .. MaxGens, seed \in 1 .. NumSeeds :
            Commit(gaTrainDirect(World, ClientGA, TPlus, numGenerations, MaxGenSteps, seed),
                   "gaTrain")

\* geneticAlgorithm.stopTraining()
GaStopTraining ==
    /\ Len(gas) >= ClientGA
    /\ Commit(gaStopTraining(World, ClientGA), "gaStopTraining")

\* a client that constructs a GeneticAlgorithm and trains with it
NextGa ==
    \/ GaConstruct
    \/ GaTrain
    \/ GaStopTraining
    \/ TrainWake

SpecGa == Init /\ [][NextGa]_vars

\* ------------------------------------------- training again after a stop
MaxTrainerCalls == 2    \* Trainer.train() calls explored in one behaviour

\* a client calls Trainer.train without a callback, also while an earlier
\* call has not returned
TrainAgain ==
    /\ Len(calls) < MaxTrainerCalls
    /\ \E numGenerations \in 1 .. MaxGens, dom \in Doms, seed \in 1 .. NumSeeds :
          Commit(train(World, TPlus, numGenerations, "none", dom, "true", seed), "train")

\* a client calls Trainer.stopTraining at any time
StopAnyTime ==
    Commit(stopTraining(World), "stopTraining")

\* a client that trains, stops and trains again
NextRetrain ==
    \/ TrainAgain
    \/ StopAnyTime
    \/ TrainWake

SpecRetrain == Init /\ [][NextRetrain]_vars

\* ------------------------------------------------ training and disposing
\* a client calls Trainer.train with a target of its own
TrainAny ==
    /\ Len(calls) < MaxTrainerCalls
    /\ \E targetShape \in {TPlus, TMissingRows}, dom \in Doms, seed \in 1 .. NumSeeds :
          Commit(train(World, targetShape, MaxGens, "none", dom, "true", seed), "train")

\* a client calls Trainer.dispose
TrainerDispose ==
    /\ trainer.geneticAlgorithm # NoGA
    /\ Commit(trainerDispose(World), "trainerDispose")

\* train(), stopTraining() and dispose() in any order
NextDispose ==
    \/ TrainAny
    \/ StopAnyTime
    \/ TrainerDispose
    \/ TrainWake

SpecDispose == Init /\ [][NextDispose]_vars

\* ------------------------------ the page's training after a client's
\* a client's train() on a target with missing rows
TrainMalformed ==
    /\ Len(calls) < MaxTrainerCalls
    /\ \E dom \in Doms, seed \in 1 .. NumSeeds :
          Commit(train(World, TMissingRows, MaxGens, "none", dom, "true", seed), "train")

\* a click on Train: stops when the Trainer says it is training, else trains
\* and shows each generation's best performer
ShowTrain ==
    /\ ~trainButton.disabled
    /\ trainer.isTraining \/ Len(calls) < MaxTrainerCalls
    /\ \E targetShape \in UiTargets, numGenerations \in 1 .. MaxGens, dom \in Doms,
          seed \in 1 .. NumSeeds :
            Commit(handleTrain(World, targetShape, numGenerations, dom, seed), "handleTrain")

NextShow ==
    \/ TrainMalformed
    \/ ShowTrain
    \/ TrainWake

SpecShow == Init /\ [][NextShow]_vars

\* ------------------------------------------------ the gradient trainer
MaxRollout == 3         \* largest stepsPerIteration and lossEveryNSteps explored

\* the configurations explored for the gradient trainer
GradientConfigs ==
    {[stepsPerIteration |-> S, lossEveryNSteps |-> N] :
        S \in 1 .. MaxRollout, N \in 1 .. MaxRollout}

\* one thing an iteration did
RolloutEvent(kind, step, input, output) ==
    [kind |-> kind, step |-> step, input |-> input, output |-> output]

\* a loss is computed every lossEveryNSteps steps and at the final step
isLossStep(config, step) ==
    \/ step % config.lossEveryNSteps = 0
    \/ step = config.stepsPerIteration

\* the rollout from step `step` on: the differentiable update on the tensor
\* the step before left, and the loss on its output where one is due
RECURSIVE rolloutFrom(_, _, _, _)
rolloutFrom(net, gridTensor, config, step) ==
    IF step > config.stepsPerIteration THEN [threw |-> FALSE, events |-> << >>]
    ELSE LET r == updateTensor(net, gridTensor)
         IN  IF r.threw THEN [threw |-> TRUE, events |-> << >>]
             ELSE LET here == << RolloutEvent("updateTensor", step, gridTensor, r.tensor) >>
                                  \o (IF isLossStep(config, step)
                                      THEN << RolloutEvent("loss", step, r.tensor, << >>) >>
                                      ELSE << >>)
                      rest == rolloutFrom(net, r.tensor, config, step + 1)
                  IN  [threw |-> rest.threw, events |-> here \o rest.events]

\* the discrete updates that follow the optimizer step, for rendering
replayEvents(config) ==
    [k \in 1 .. config.stepsPerIteration |-> RolloutEvent("update", k, << >>, << >>)]

\* one training iteration; wNext is what the optimizer step makes of the
\* parameters
gradientIteration(s, config, wNext) ==
    LET net == s.nets[SharedNet]
        s1 == [s EXCEPT !.cells = _resetToSeedCell(@),
                        !.log.api = << [op |-> "iteration", config |-> config,
                                        w |-> net.w] >>]
        r == rolloutFrom(net, toTensor(s1.cells), config, 1)
    IN  IF r.threw THEN [s1 EXCEPT !.threw = TRUE, !.log.rollout = r.events]
        ELSE LET s2 == [s1 EXCEPT !.nets[SharedNet].w = wNext,
                                  !.cells = _resetToSeedCell(@)]
                 replay == runSteps(torus, s2.cells, s2.nets[SharedNet],
                                    config.stepsPerIteration)
             IN  [s2 EXCEPT !.cells = replay.cells,
                            !.log.rollout =
                                r.events
                                \o << RolloutEvent("optimizer", 0, << >>, << >>) >>
                                \o replayEvents(config)]

GradientIteration ==
    /\ torus
    /\ \E config \in GradientConfigs, wNext \in InitWeights :
          Commit(gradientIteration(World, config, wNext), "iteration")

\* iterations of the gradient trainer on the grid the page shows
NextGradient ==
    \/ GradientIteration
    \/ NetDispose
    \/ GridClear

SpecGradient == Init /\ [][NextGradient]_vars

\* a click on Train with the page's inputs as they are left in this
\* exploration: one target, MaxGens generations, one set of parameters
PageTrain ==
    /\ ~trainButton.disabled
    /\ trainer.isTraining \/ Len(calls) < MaxCalls
    /\ \E dom \in {d \in Doms : d.eliteCount = 1} :
            Commit(handleTrain(World, TPlus, MaxGens, dom, 1), "handleTrain")

\* the 10 ms sleep of the page's train() call ends
PageWake ==
    \E c \in 1 .. Len(calls) :
        /\ calls[c].status = "sleeping"
        /\ Commit(resumeTrain(World, c, "true", 1), "trainWake")

\* the Run and Train buttons of the page and the tasks they leave behind
NextUi ==
    \/ HandleRun
    \/ TimeoutFires
    \/ FrameFires
    \/ PageTrain
    \/ PageWake

SpecUi == Init /\ [][NextUi]_vars

\* ------------------------------------------------------------------ claims
\* the grid that applying the network to every cell's neighbourhood in `from`
\* gives
CellwiseImage(from, w) ==
    [p \in Pos |-> predictOne(w, getNeighborInput(torus, from, p[1], p[2]))]

\* other orders to visit the cells in: backwards, and x outer / y inner
Backwards == [i \in 1 .. GridW * GridH |-> RowMajor[GridW * GridH + 1 - i]]
ColumnMajor == [i \in 1 .. GridW * GridH |-> <<(i - 1) \div GridH, (i - 1) % GridH>>]

\* C1: an update() of the run loop sets every cell to the network's output on
\* the neighbourhood input read from the grid as it was before the update,
\* and visiting the cells in another order gives the same grid.
C1_SynchronousUpdate ==
    ev.log.loopUpdates = 1 =>
        LET w == nets[ca.neuralNetwork].w
        IN  /\ cells = CellwiseImage(preCells, w)
            /\ cells = updateCells(torus, preCells, w, RowMajor)
            /\ \A order \in {Backwards, ColumnMajor} :
                   updateCells(torus, preCells, w, order) = cells

\* an update ran on a grid where a cell's new state differs from its old one
\* and a neighbour of a changed cell was read after it in visiting order
C1_Witness ==
    /\ ev.log.loopUpdates = 1
    /\ cells # preCells
    /\ updateCellsInPlace(torus, preCells, nets[ca.neuralNetwork].w, RowMajor) # cells

\* C3: a run started with a step limit n makes exactly n updates and then
\* stops itself: once it has ended at its limit the CA is not running, n
\* updates were made, and a run that began with nothing pending leaves no
\* timer or frame behind; until it ends (at the limit, by stop() or by an
\* error) it has made fewer than n updates and is alive: running, with a
\* timer or a frame pending.
C3_StepLimitedRun ==
    /\ lastRun.ended = "limit" =>
          /\ lastRun.updates = lastRun.limit
          /\ ~ca.isRunning
          /\ lastRun.clean => timeouts = 0 /\ frames = {}
    /\ lastRun.ended = "no" /\ lastRun.limit # Null =>
          /\ lastRun.updates < lastRun.limit
          /\ ca.isRunning
          /\ timeouts > 0 \/ frames # {}

\* a run of more than one step reached its limit by itself
C3_Witness ==
    lastRun.ended = "limit" /\ lastRun.limit > 1 /\ ev.kind = "frame"

\* C4: while the CA is stopped, no task but one that calls start() makes an
\* update, whatever timers and frames are still pending.
C4_NoUpdateWhileStopped ==
    [][~ca.isRunning /\ ev'.kind # "handleRun" => ev'.log.loopUpdates = 0]_vars

\* a frame requested before stop() ran after it and did nothing
C4_Witness ==
    /\ ev.kind = "frame"
    /\ ~ca.isRunning
    /\ ev.log.loopUpdates = 0
    /\ ~ev.log.loopThrew
    /\ lastRun.ended = "stop"

\* C5: when update() throws in the run loop, the loop stops: the task makes
\* no update, schedules nothing, and leaves the CA not running.
C5_ThrowStopsLoop ==
    [][ev'.log.loopThrew =>
          /\ ~ca'.isRunning
          /\ ev'.log.loopUpdates = 0
          /\ timeouts' <= timeouts
          /\ frames' \subseteq frames]_vars

\* update() threw in a frame of a run that had already made an update
C5_Witness ==
    ev.log.loopThrew /\ ev.kind = "frame" /\ lastRun.updates > 0

\* C6: an error thrown by update() in the run loop reaches the caller of
\* start() (it leaves the task uncaught) or is handed to a callback.
C6_ErrorPropagates ==
    ev.log.loopThrew =>
        ev.uncaught \/ ev.log.callbacks + ev.log.completions > 0

\* main.js / _resetToSeedCell's seed grid, written out: the centre cell on,
\* every other cell off, every state vector zero
SeedGrid ==
    [p \in Pos |->
        IF p = <<FloorHalf(GridW), FloorHalf(GridH)>>
        THEN [on |-> TRUE, stateVector |-> ZeroVector]
        ELSE OffCell]

\* the loss of parameters w on a target after genSteps updates from the seed
LossOf(w, targetShape, genSteps) ==
    _computeLoss(torus,
                 runSteps(torus, SeedGrid, [w |-> w, isInitialized |-> TRUE], genSteps).cells,
                 targetShape).loss

\* C2: with eliteCount >= 1 the loss history of a train() call never rises
\* from one generation to the next.
C2_HistoryNonIncreasing ==
    \A c \in 1 .. Len(calls) :
        calls[c].ga # NoGA /\ gas[calls[c].ga].eliteCount >= 1 =>
            \A i \in 1 .. Len(calls[c].lossHistory) - 1 :
                ~Less(calls[c].lossHistory[i], calls[c].lossHistory[i + 1])

\* a call whose second generation was evaluated and did better than its first
C2_Witness ==
    \E c \in 1 .. Len(calls) :
        /\ calls[c].ga # NoGA
        /\ gas[calls[c].ga].eliteCount >= 1
        /\ Len(calls[c].lossHistory) >= 2
        /\ Less(calls[c].lossHistory[2], calls[c].lossHistory[1])

\* C7: every evaluation starts from the seed grid, and the loss it returns is
\* a function of the individual's own parameters, the target and genSteps.
C7_EvaluationFromSeed ==
    \A i \in 1 .. Len(ev.log.evals) :
        LET e == ev.log.evals[i]
        IN  /\ e.startCells = SeedGrid
            /\ e.loss = LossOf(e.w, e.targetShape, e.genSteps)

\* individuals were evaluated one after another, on a grid that the task
\* found away from the seed
C7_Witness ==
    /\ Len(ev.log.evals) >= 2
    /\ preCells # SeedGrid
    /\ \E i, j \in 1 .. Len(ev.log.evals) : ev.log.evals[i].loss # ev.log.evals[j].loss

\* C8: whenever _evaluateFitness finishes, by returning or by throwing,
\* ca.neuralNetwork is the network it was before the evaluation.
C8_NetworkRestored ==
    \A i \in 1 .. Len(ev.log.evalEnds) :
        ev.log.evalEnds[i].installed = ev.log.evalEnds[i].original

\* the values JavaScript treats as false
Falsy == {"false", "undefined", "zero"}

\* the call stopped at generation g: g history entries, g generations
\* started, the loop left, and the population still the one evaluated
StoppedAt(c, g) ==
    /\ Len(calls[c].lossHistory) = g
    /\ calls[c].status \in {"resolved", "rejected"}
    /\ gas[calls[c].ga].generation = g
    /\ ~gas[calls[c].ga].isTraining
    /\ \A i \in 1 .. Len(gas[calls[c].ga].population) :
           gas[calls[c].ga].population[i].fitness # NullNumber

\* C9 as stated: a callback that returns a false-like value at generation g
\* stops train() there.
C9_FalsyStops ==
    \A c \in 1 .. Len(calls) :
        \A g \in 1 .. Len(calls[c].cbReturns) :
            calls[c].cbReturns[g] \in Falsy => StoppedAt(c, g)

\* C9, amended: a callback that returns exactly false at generation g stops
\* train() there: no next population, no further evaluation, g history entries.
C9_FalseStops ==
    \A c \in 1 .. Len(calls) :
        \A g \in 1 .. Len(calls[c].cbReturns) :
            calls[c].cbReturns[g] = "false" => StoppedAt(c, g)

\* a callback returned false at the first of several generations
C9_Witness ==
    \E c \in 1 .. Len(calls) :
        /\ calls[c].numGenerations > 1
        /\ calls[c].cbReturns = << "false" >>

\* the individuals of the generation evaluated last that have the lowest loss
BestOfLastEval ==
    {i \in 1 .. Len(lastEval) :
        \A j \in 1 .. Len(lastEval) : ~Less(lastEval[j].loss, lastEval[i].loss)}

\* C10: when Trainer.train() resolves, the shared network holds the
\* parameters of a lowest-loss individual of the generation evaluated last.
C10_BestInstalled ==
    ev.log.resolved # {} /\ lastEval # << >> =>
        \E i \in BestOfLastEval : nets[SharedNet].w = lastEval[i].w

\* a train() resolved after a generation whose individuals differ in loss
C10_Witness ==
    /\ ev.log.resolved # {}
    /\ lastEval # << >>
    /\ \E i \in 1 .. Len(lastEval) : i \notin BestOfLastEval
    /\ \E i \in BestOfLastEval : nets[SharedNet].w = lastEval[i].w

\* the loss history of call c before the task (empty for a call the task made)
HistoryBefore(c) == IF c <= Len(calls) THEN calls[c].lossHistory ELSE << >>
CbReturnsBefore(c) == IF c <= Len(calls) THEN calls[c].cbReturns ELSE << >>

\* the task did not end call c early: nobody had stopped its GeneticAlgorithm
\* while it slept, and its callback did not return false in this task
NotStoppedEarly(c) ==
    /\ c <= Len(calls) => gas[calls[c].ga].isTraining
    /\ \/ calls'[c].cbReturns = CbReturnsBefore(c)
       \/ calls'[c].cbReturns[Len(calls'[c].cbReturns)] # "false"

\* C11: the history of a train() call grows by one entry per evaluated
\* generation, in generation order; the entry is the minimum loss over the
\* individuals of that generation; a call that resolves has one entry per
\* generation it began, and numGenerations entries when not stopped early.
C11_HistoryPerGeneration ==
    [][\A c \in 1 .. Len(calls') :
          calls'[c].ga # NoGA =>
            LET new == calls'[c].lossHistory
                evals == ev'.log.evals
            IN  /\ new = HistoryBefore(c) \/ Len(new) = Len(HistoryBefore(c)) + 1
                /\ SubSeq(new, 1, Len(HistoryBefore(c))) = HistoryBefore(c)
                /\ new # HistoryBefore(c) =>
                      /\ Len(evals) = Len(lastEval')
                      /\ Len(evals) > 0
                      /\ \E i \in 1 .. Len(evals) : evals[i].loss = new[Len(new)]
                      /\ \A i \in 1 .. Len(evals) : ~Less(evals[i].loss, new[Len(new)])
                /\ calls'[c].status # "rejected" =>
                      Len(new) = gas'[calls'[c].ga].generation
                /\ c \in ev'.log.resolved /\ NotStoppedEarly(c) =>
                      Len(new) = calls'[c].numGenerations]_vars

\* a call ran all of its several generations and resolved, and the
\* individuals of its last generation differ in loss
C11_Witness ==
    \E c \in 1 .. Len(calls) :
        /\ c \in ev.log.resolved
        /\ calls[c].numGenerations > 1
        /\ Len(calls[c].lossHistory) = calls[c].numGenerations
        /\ \E i, j \in 1 .. Len(lastEval) : Less(lastEval[i].loss, lastEval[j].loss)

\* call c is suspended in its 10 ms sleep and its GeneticAlgorithm was stopped
StoppedAsleep(c) ==
    calls[c].status = "sleeping" /\ ~gas[calls[c].ga].isTraining

\* the individuals of a population are all evaluated or all unevaluated
WholeGenerations(population) ==
    \/ \A i \in 1 .. Len(population) : population[i].fitness = NullNumber
    \/ \A i \in 1 .. Len(population) : population[i].fitness # NullNumber

\* C12: once stopTraining() was called while a train() call slept between
\* generations, the call begins no generation, evaluates no individual and
\* calls no callback; when it wakes, GeneticAlgorithm.train returns the
\* history as it was.  No task leaves a generation half evaluated for
\* stopTraining() to find, unless the evaluation threw.
C12_StopBetweenGenerations ==
    [][/\ \A c \in 1 .. Len(calls) :
            StoppedAsleep(c) =>
              /\ calls'[c].lossHistory = calls[c].lossHistory
              /\ calls'[c].cbReturns = calls[c].cbReturns
              /\ gas'[calls[c].ga].generation = gas[calls[c].ga].generation
              /\ calls'[c].status # "sleeping" =>
                     /\ ev'.log.evals = << >>
                     /\ ev'.log.cbReturns = << >>
                     /\ ev'.log.gaReturns =
                            << [call |-> c, losses |-> calls[c].lossHistory] >>
       /\ \A c \in 1 .. Len(calls') :
            calls'[c].status = "sleeping" =>
                WholeGenerations(gas'[calls'[c].ga].population)]_vars

\* a call stopped in its sleep after the first of several generations woke
\* and returned its one-entry history
C12_Witness ==
    /\ ev.kind = "trainWake"
    /\ \E c \in 1 .. Len(calls) :
          /\ ev.log.gaReturns = << [call |-> c, losses |-> calls[c].lossHistory] >>
          /\ Len(calls[c].lossHistory) = 1
          /\ calls[c].numGenerations > 1
          /\ calls[c].cbReturns # << "false" >>

\* C13: the run loop and a training are never both active.
C13_NeverBothActive ==
    ~(ca.isRunning /\ trainer.isTraining)

\* C14: when the evaluation of an individual throws, the task evaluates
\* nothing after it, train() rejects, and the call's history and callback
\* record are as they were before the generation; a rejected call is never
\* taken up again.
C14_EvaluationErrorRejects ==
    [][/\ (\E i \in 1 .. Len(ev'.log.evalEnds) : ev'.log.evalEnds[i].threw) =>
            /\ \A i \in 1 .. Len(ev'.log.evalEnds) :
                   ev'.log.evalEnds[i].threw <=> i = Len(ev'.log.evalEnds)
            /\ Len(ev'.log.evals) = Len(ev'.log.evalEnds) - 1
            /\ ev'.log.rejected # {}
            /\ ev'.log.resolved = {}
            /\ ev'.log.cbReturns = << >>
            /\ \A c \in ev'.log.rejected :
                   /\ calls'[c].lossHistory = HistoryBefore(c)
                   /\ calls'[c].cbReturns = CbReturnsBefore(c)
       /\ \A c \in 1 .. Len(calls) :
            calls[c].status = "rejected" => calls'[c] = calls[c]]_vars

\* the evaluation of the first individual of a larger population threw, and
\* the call that evaluated it is rejected
C14_Witness ==
    /\ Len(ev.log.evalEnds) = 1
    /\ ev.log.evalEnds[1].threw
    /\ \E c \in ev.log.rejected :
          /\ calls[c].ga # NoGA
          /\ Len(gas[calls[c].ga].population) > 1

\* the loss window of the grid, as getCell returns it, equals the target
WindowEquals(grid, targetShape) == WindowTarget(grid).on = targetShape.on

\* C15: for every evaluator, every grid and every 5x5 boolean target the loss
\* lies in [0, 1] and is 0 exactly when the window equals the target.
C15_LossRange ==
    \A i \in 1 .. Len(ev.log.api) :
        LET e == ev.log.api[i]
        IN  e.op \in Evaluators /\ e.targetShape.rowLength = TFull.rowLength =>
              /\ ~e.threw
              /\ 0 <= e.loss.num /\ e.loss.num <= e.loss.den /\ e.loss.den > 0
              /\ e.loss.num = 0 <=> WindowEquals(cells, e.targetShape)

\* the loss window, from its offset on, lies inside the grid on both axes
WindowInsideGrid ==
    /\ FloorHalf(GridW) - HalfTarget >= 0
    /\ FloorHalf(GridW) - HalfTarget + TargetDim <= GridW
    /\ FloorHalf(GridH) - HalfTarget >= 0
    /\ FloorHalf(GridH) - HalfTarget + TargetDim <= GridH

\* C16: computing a loss fails when the loss window does not lie inside the
\* grid.
C16_WindowOutsideFails ==
    \A i \in 1 .. Len(ev.log.api) :
        ev.log.api[i].op \in Evaluators /\ ~WindowInsideGrid => ev.log.api[i].threw

\* the target has five rows of five entries each
ExactlyFiveByFive(targetShape) ==
    /\ targetShape.length = TargetDim
    /\ \A r \in 1 .. targetShape.length : targetShape.rowLength[r] = TargetDim

\* C17: a train() call with a target that is not exactly 5x5 is rejected in
\* the task that makes it, and that task changes nothing: isTraining, the
\* populations, the networks and the grid are as before.
C17_MalformedTargetRejected ==
    [][\A c \in Len(calls) + 1 .. Len(calls') :
          ~ExactlyFiveByFive(calls'[c].targetShape) =>
              /\ c \in ev'.log.rejected
              /\ trainer'.isTraining = trainer.isTraining
              /\ gas' = gas
              /\ nets' = nets
              /\ cells' = cells]_vars

\* C18: in the torus grid getCell(x, y) returns the grid's cell at
\* (x mod width, y mod height) for every integer x, y; in the padding grid it
\* returns, for every coordinate outside the grid, an off cell with an
\* all-zero state vector that is not a cell of the grid (and inside the grid,
\* in both, the grid's cell at (x, y)).
C18_GetCellBoundary ==
    ev.kind = "getCell" =>
        LET e == ev.log.api[1]
            inside == e.x \in 0 .. GridW - 1 /\ e.y \in 0 .. GridH - 1
            wrapped == <<e.x % GridW, e.y % GridH>>
        IN  /\ torus =>
                /\ e.object = [fresh |-> FALSE, at |-> wrapped]
                /\ e.cell = cells[wrapped]
            /\ ~torus /\ ~inside =>
                /\ e.object.fresh
                /\ ~e.cell.on
                /\ \A i \in 1 .. K : e.cell.stateVector[i] = 0
                /\ Len(e.cell.stateVector) = K
            /\ inside =>
                /\ e.object = [fresh |-> FALSE, at |-> <<e.x, e.y>>]
                /\ e.cell = cells[<<e.x, e.y>>]

\* getCell on the torus, left of the grid, returned a cell that is on: the
\* wrapped cell, where padding gives an off cell
C18_Witness ==
    /\ ev.kind = "getCell"
    /\ torus
    /\ ev.log.api[1].x < 0
    /\ ev.log.api[1].cell.on
    /\ ev.log.api[1].object.at[1] = ev.log.api[1].x % GridW

\* [on ? 1 : 0, state[0 .. K-1]] of a cell
Slice(cell) == <<IF cell.on THEN 1 ELSE 0>> \o cell.stateVector

\* top, bottom, left, right, self of (x, y)
FivePositions(x, y) ==
    << <<x, y - 1>>, <<x, y + 1>>, <<x - 1, y>>, <<x + 1, y>>, <<x, y>> >>

\* the grid cell each of the five positions of (x, y) stands for
FiveObjects(x, y) ==
    [n \in 1 .. NumNeighbors |->
        getCellObject(torus, FivePositions(x, y)[n][1], FivePositions(x, y)[n][2])]

\* the five positions of (x, y) are five different cells of the grid
FiveDistinctCells(x, y) ==
    /\ \A n \in 1 .. NumNeighbors : ~FiveObjects(x, y)[n].fresh
    /\ \A n, m \in 1 .. NumNeighbors :
          n # m => FiveObjects(x, y)[n].at # FiveObjects(x, y)[m].at

\* the states one cell is changed to
ChangedCells ==
    {[on |-> b, stateVector |-> v] :
        b \in BOOLEAN, v \in {ZeroVector, <<1, -1>>, <<-1, 1>>}}

\* C19: getNeighborInput(x, y) is the concatenation of [on?1:0, state] of top,
\* bottom, left, right, self in that order; when the five positions are
\* distinct cells, changing one of them changes that cell's slice of the
\* output to the new state and no other element.
C19_NeighborInputOrder ==
    ev.kind = "getNeighborInput" =>
        LET e == ev.log.api[1]
            at == FivePositions(e.x, e.y)
        IN  /\ e.input = Slice(getCell(torus, cells, at[1][1], at[1][2]))
                          \o Slice(getCell(torus, cells, at[2][1], at[2][2]))
                          \o Slice(getCell(torus, cells, at[3][1], at[3][2]))
                          \o Slice(getCell(torus, cells, at[4][1], at[4][2]))
                          \o Slice(getCell(torus, cells, at[5][1], at[5][2]))
            /\ FiveDistinctCells(e.x, e.y) =>
                  \A n \in 1 .. NumNeighbors, c \in ChangedCells :
                      LET changed == [cells EXCEPT ![FiveObjects(e.x, e.y)[n].at] = c]
                          after == getNeighborInput(torus, changed, e.x, e.y)
                      IN  \A idx \in 1 .. InputLen :
                            after[idx] =
                                IF ((idx - 1) \div (1 + K)) + 1 = n
                                THEN Slice(c)[((idx - 1) % (1 + K)) + 1]
                                ELSE e.input[idx]

\* getNeighborInput was read for a cell whose five positions are distinct
\* cells, with the left neighbour and the cell itself on and the right
\* neighbour off
C19_Witness ==
    /\ ev.kind = "getNeighborInput"
    /\ FiveDistinctCells(ev.log.api[1].x, ev.log.api[1].y)
    /\ ev.log.api[1].input[2 * (1 + K) + 1] = 1
    /\ ev.log.api[1].input[3 * (1 + K) + 1] = 0
    /\ ev.log.api[1].input[4 * (1 + K) + 1] = 1

\* C20: setCell with x or y outside the grid leaves every cell unchanged, in
\* the torus grid too; inside the grid it changes only cell (x, y), sets its
\* on flag, and replaces its state vector only when a vector of exactly K
\* elements is supplied; every cell's state vector has K elements.
C20_SetCellFrame ==
    /\ \A p \in Pos : Len(cells[p].stateVector) = K
    /\ ev.kind = "setCell" =>
          LET e == ev.log.api[1]
              inside == e.x \in 0 .. GridW - 1 /\ e.y \in 0 .. GridH - 1
          IN  /\ ~inside => cells = preCells
              /\ inside =>
                    /\ \A p \in Pos \ {<<e.x, e.y>>} : cells[p] = preCells[p]
                    /\ cells[<<e.x, e.y>>].on = e.on
                    /\ cells[<<e.x, e.y>>].stateVector =
                           IF Len(e.stateVector) = K
                           THEN e.stateVector
                           ELSE preCells[<<e.x, e.y>>].stateVector

\* setCell was called on the torus grid with x left of the grid, on true and
\* a vector of K elements, while the cell the coordinates would wrap to is
\* off with a different vector
C20_Witness ==
    /\ ev.kind = "setCell"
    /\ torus
    /\ ev.log.api[1].x < 0
    /\ ev.log.api[1].y \in 0 .. GridH - 1
    /\ ev.log.api[1].on
    /\ Len(ev.log.api[1].stateVector) = K
    /\ ~cells[<<ev.log.api[1].x % GridW, ev.log.api[1].y>>].on
    /\ cells[<<ev.log.api[1].x % GridW, ev.log.api[1].y>>].stateVector
          # ev.log.api[1].stateVector

\* setCell was called inside the grid with a vector that has not K elements,
\* on a cell whose state vector is not zero: the flag changed, the vector
\* stayed
C20_WitnessKept ==
    /\ ev.kind = "setCell"
    /\ ev.log.api[1].x \in 0 .. GridW - 1
    /\ ev.log.api[1].y \in 0 .. GridH - 1
    /\ ev.log.api[1].stateVector # NoVector
    /\ Len(ev.log.api[1].stateVector) # K
    /\ preCells[<<ev.log.api[1].x, ev.log.api[1].y>>].on # ev.log.api[1].on
    /\ cells[<<ev.log.api[1].x, ev.log.api[1].y>>].stateVector # ZeroVector

C22_DenseRoundTrip ==
    /\ ev.kind = "toTensor" =>
          LET t == ev.log.api[1].tensor
          IN  /\ Len(t) = GridH
              /\ \A y \in 0 .. GridH - 1 :
                    /\ Len(t[y + 1]) = GridW
                    /\ \A x \in 0 .. GridW - 1 :
                          /\ Len(t[y + 1][x + 1]) = 1 + K
                          /\ t[y + 1][x + 1][1] =
                                IF cells[<<x, y>>].on THEN TensorUnit ELSE 0
                          /\ \A j \in 1 .. K :
                                t[y + 1][x + 1][1 + j] =
                                    TensorUnit * cells[<<x, y>>].stateVector[j]
    /\ ev.kind = "roundTrip" => cells = preCells
    /\ ev.kind = "fromTensor" =>
          \A p \in Pos :
              LET e == ev.log.api[1].tensor[p[2] + 1][p[1] + 1]
              IN  /\ cells[p].on <=> 2 * e[1] > TensorUnit
                  /\ \A j \in 1 .. K : TensorUnit * cells[p].stateVector[j] = e[1 + j]

\* fromTensor(toTensor()) ran on a grid that is not symmetric in x and y and
\* has cells with non-zero state vectors
C22_Witness ==
    /\ ev.kind = "roundTrip"
    /\ \E p \in Pos : cells[p] # cells[<<p[2], p[1]>>]
    /\ \E p \in Pos : cells[p].on /\ cells[p].stateVector # ZeroVector

\* fromTensor read an on/off channel of exactly 0.5 and left the cell off
C22_WitnessHalf ==
    /\ ev.kind = "fromTensor"
    /\ \E p \in Pos :
          /\ 2 * ev.log.api[1].tensor[p[2] + 1][p[1] + 1][1] = TensorUnit
          /\ ~cells[p].on

\* C23: the child of a crossover of two parents has their shape, each of its
\* weight elements is the element at the same position of one of the two
\* parents, and the child of two identical parents has their parameters.
C23_CrossoverPicks ==
    ev.kind = "crossover" /\ ~ev.log.api[1].threw =>
        LET e == ev.log.api[1]
            w1 == nets[e.parent1].w
            w2 == nets[e.parent2].w
            child == nets[e.child].w
        IN  /\ Len(child) = Len(w1)
            /\ \A n \in 1 .. Len(child) : child[n] = w1[n] \/ child[n] = w2[n]
            /\ w1 = w2 => child = w1

\* a crossover of two parents, all of whose elements are non-zero and differ
\* from the other parent's, took elements from both, one of them where the
\* mask is exactly the threshold
C23_Witness ==
    /\ ev.kind = "crossover"
    /\ ~ev.log.api[1].threw
    /\ LET w1 == nets[ev.log.api[1].parent1].w
           w2 == nets[ev.log.api[1].parent2].w
           child == nets[ev.log.api[1].child].w
       IN  /\ \A n \in 1 .. NumWeights :
                 w1[n] # 0 /\ w2[n] # 0 /\ w1[n] # w2[n]
           /\ \E n \in 1 .. NumWeights : child[n] = w1[n]
           /\ \E n \in 1 .. NumWeights : child[n] = w2[n]
           /\ \E seed \in 1 .. NumSeeds, i \in 0 .. MaxPop - 1 :
                 /\ \E n \in 1 .. NumWeights :
                       randomUniform(seed, i)[n] = CrossoverThreshold
                 /\ child = crossoverWeights(w1, w2, randomUniform(seed, i))

\* train() call c has evaluated a generation that is not its last, and was
\* not told to stop
BuiltNextPopulation(c) ==
    /\ calls[c].ga # NoGA
    /\ Len(calls[c].lossHistory) >= 1
    /\ Len(calls[c].lossHistory) < calls[c].numGenerations
    /\ Len(calls[c].lossHistory) = calls[c].gen + 1
    /\ \A i \in 1 .. Len(calls[c].cbReturns) : ~callbackStops(calls[c].cbReturns[i])
    /\ gas[calls[c].ga].isTraining \/ calls[c].status = "rejected"

\* w is a mutated crossover of w1 and w2 under the parameters of ga
MutatedCrossover(w, w1, w2, ga) ==
    \E seed \in 1 .. NumSeeds + 2, i \in 0 .. MaxPop :
        w = mutateWeights(crossoverWeights(w1, w2, randomUniform(seed, i)),
                          ga.mutationRate, ga.mutationStrength,
                          randomUniform(seed + 1, i), randomNormal(seed, i))

\* C24: each next population built by train() has exactly populationSize
\* individuals, the first eliteCount parameter-equal copies of the top
\* eliteCount of the sorted current population, the rest mutated crossovers of
\* the top 2, for every eliteCount >= 1 and populationSize >= 1.
C24_NextPopulation ==
    \A c \in 1 .. Len(calls) :
        BuiltNextPopulation(c) =>
            LET ga == gas[calls[c].ga]
            IN  /\ calls[c].status = "sleeping"
                /\ Len(ga.population) = ga.populationSize
                /\ \A i \in 1 .. Len(ga.population) :
                      IF i <= ga.eliteCount
                      THEN /\ i <= Len(lastEval)
                           /\ nets[ga.population[i].network].w = lastEval[i].w
                      ELSE /\ Len(lastEval) >= 2
                           /\ MutatedCrossover(nets[ga.population[i].network].w,
                                               lastEval[1].w, lastEval[2].w, ga)

\* a next population was built with an elite and a bred child
C24_Built ==
    \E c \in 1 .. Len(calls) :
        /\ BuiltNextPopulation(c)
        /\ calls[c].status = "sleeping"
        /\ gas[calls[c].ga].eliteCount < gas[calls[c].ga].populationSize

\* C25: update(), predict(), predictBatch() and updateTensor() throw whenever
\* the network is not initialised, and an update() that threw leaves every
\* grid cell unchanged.
C25_NotInitializedFails ==
    ev.kind \in {"clientUpdate", "clientPredict", "clientUpdateTensor"} =>
        LET e == ev.log.api[1]
        IN  /\ ~nets[e.net].isInitialized => e.threw /\ ev.uncaught
            /\ ev.kind = "clientUpdate" /\ e.threw => cells = preCells

\* update() was called on a network that was initialised and then disposed,
\* on a grid an earlier update had changed, and threw
C25_Witness ==
    /\ ev.kind = "clientUpdate"
    /\ ev.log.api[1].threw
    /\ nets[ev.log.api[1].net].w # FreshWeights
    /\ cells # SeedGrid

\* updateTensor() was called on a network that was never initialised, and
\* threw
C25_WitnessNew ==
    /\ ev.kind = "clientUpdateTensor"
    /\ ev.log.api[1].threw
    /\ nets[ev.log.api[1].net] = NewNeuralNetwork

\* C26: in a continuous run every turn of the loop whose update returns
\* leaves the CA running and schedules the next turn, whatever maxSteps is;
\* such a run never ends at a step limit.
C26_ContinuousIgnoresLimit ==
    [][/\ ca'.isContinuous /\ ev'.log.loopUpdates > 0 =>
             /\ ca'.isRunning
             /\ timeouts' = timeouts + 1
       /\ ca'.isContinuous /\ lastRun' # lastRun => lastRun'.ended # "limit"]_vars

\* a continuous run started with a numeric maxSteps has made more updates
\* than maxSteps and is running
C26_Witness ==
    /\ ca.isRunning
    /\ ca.isContinuous
    /\ ca.maxSteps # Null
    /\ ca.currentStep > ca.maxSteps
    /\ ev.kind = "frame"
    /\ ev.log.loopUpdates = 1

\* C28: the callback passed to start() is called after each update() the
\* run loop performs, the update that reaches the step limit included: a task
\* of a run that has a callback calls it as often as it updates.
C28_CallbackAfterEachUpdate ==
    ca.updateCallback => ev.log.callbacks = ev.log.loopUpdates

\* where the code leaves the callback out: the update that reached the limit
C28_SkippedAtLimit ==
    /\ ca.updateCallback
    /\ ev.log.loopUpdates = 1
    /\ ev.log.callbacks = 0
    /\ lastRun.ended = "limit"

\* away from the step limit the callback follows every update
C28_CallbackBeforeLimit ==
    ca.updateCallback /\ ca.isRunning => ev.log.callbacks = ev.log.loopUpdates

\* C29: the completion callback is invoked once by the task in which a run
\* that was given one reaches its step limit, after isRunning has become
\* false, and by no other task: not when the run ends by stop() or by an
\* update error, and not for a run started without a completion callback.
C29_CompletionOnceAtLimit ==
    [][/\ ev'.log.completions =
             IF /\ ev'.log.loopUpdates > 0
                /\ lastRun'.ended = "limit"
                /\ lastRun'.completion
             THEN 1 ELSE 0
       /\ ev'.log.completionsWhileRunning = 0]_vars

\* a run with a completion callback has ended at its limit and called it
C29_Witness ==
    /\ ev.log.completions = 1
    /\ lastRun.ended = "limit"
    /\ ~ca.isRunning

\* a run without a completion callback ended at its limit after a run with
\* one had been stopped, and called nothing
C29_WitnessWithout ==
    /\ ev.kind = "frame"
    /\ ev.log.loopUpdates = 1
    /\ lastRun.ended = "limit"
    /\ ~lastRun.completion
    /\ ~lastRun.clean
    /\ ev.log.completions = 0

\* a run with a completion callback ended by an update error
C29_WitnessError ==
    /\ lastRun.ended = "error"
    /\ lastRun.completion
    /\ ev.log.loopThrew
    /\ ev.log.completions = 0

\* C30: at most one run-loop chain is alive: whatever start() and stop()
\* calls are made, at most one next update is scheduled (as a timer or as
\* the frame it requested).
C30_OneChain ==
    timeouts + Cardinality(frames) <= 1

\* two chains: a run was started while a timer of a stopped run was pending,
\* and now two next updates of the running CA are scheduled
C30_TwoChains ==
    /\ ca.isRunning
    /\ ~lastRun.clean
    /\ timeouts + Cardinality(frames) = 2

\* a run started with nothing pending keeps a single chain while it runs
C30_OneChainIfClean ==
    ca.isRunning /\ lastRun.clean => timeouts + Cardinality(frames) <= 1

\* the places of the events of one kind in a rollout
EventsOf(t, kind) == {i \in DOMAIN t : t[i].kind = kind}

C31_StoppedNeverResumes ==
    [][\A c \in DOMAIN calls :
          calls[c].stopped => calls'[c].lossHistory = calls[c].lossHistory]_vars

\* two loops on one population: the stopped call and the call made after it
\* both wait for their next generation on the same GeneticAlgorithm
C31_TwoLoops ==
    \E c, d \in DOMAIN calls :
        /\ c < d
        /\ calls[c].ga = calls[d].ga
        /\ calls[c].stopped
        /\ Len(calls[c].lossHistory) = 2
        /\ calls[c].status = "sleeping"
        /\ calls[d].status = "sleeping"

\* as long as no other train() call was made on the GeneticAlgorithm, a
\* stopped call records nothing more
C31_StoppedAloneStays ==
    [][\A c \in DOMAIN calls :
          calls[c].stopped /\ (\A d \in DOMAIN calls : d # c => calls[d].ga # calls[c].ga)
              => calls'[c].lossHistory = calls[c].lossHistory]_vars

\* no train() call is in progress
NoCallInProgress == \A c \in DOMAIN calls : calls[c].status \in {"resolved", "rejected"}

\* C32: whenever no train() call is in progress, after train() resolved or
\* rejected, the training-active flags of the Trainer and of its
\* GeneticAlgorithm are false.
C32_IdleMeansNotTraining ==
    NoCallInProgress =>
        /\ ~trainer.isTraining
        /\ \A g \in DOMAIN gas : ~gas[g].isTraining

\* a train() call rejected in an evaluation and left both flags set
C32_StuckTraining ==
    /\ Len(calls) = 1
    /\ calls[1].status = "rejected"
    /\ calls[1].ga # NoGA
    /\ trainer.isTraining
    /\ gas[calls[1].ga].isTraining

\* after train() resolved the flags are false
C32_ResolvedNotTraining ==
    Len(calls) = 1 /\ calls[1].status = "resolved" =>
        /\ ~trainer.isTraining
        /\ \A g \in DOMAIN gas : ~gas[g].isTraining

\* a GeneticAlgorithm loop the Trainer started is still running: the call
\* waits for its next generation and nothing has stopped it
LoopRunning(c) ==
    /\ calls[c].status = "sleeping"
    /\ ~calls[c].stopped
    /\ gas[calls[c].ga].isTraining

\* C33: Trainer.getIsTraining() is true as long as a GeneticAlgorithm loop
\* the Trainer started is running, also after an earlier, stopped train()
\* call has returned.
C33_FlagWhileLoopRuns ==
    (\E c \in DOMAIN calls : LoopRunning(c)) => trainer.isTraining

\* the first call has returned while the second one goes on, and the flag
\* is false
C33_FlagLost ==
    /\ Len(calls) = 2
    /\ calls[1].status = "resolved"
    /\ calls[1].stopped
    /\ LoopRunning(2)
    /\ ~trainer.isTraining
    /\ ev.kind = "trainWake"

\* what the returning first call copies into the shared network is the
\* first individual of the second run's population
C33_CopiesSecondRun ==
    Len(calls) = 2 /\ calls[1].status = "resolved" /\ 1 \in ev.log.resolved
        /\ calls[2].status = "sleeping" =>
            nets[SharedNet].w = nets[gas[calls[2].ga].population[1].network].w

\* C34: no disposed network is in use: none is an individual of a
\* population (to be evaluated, bred from or returned by getBestNetwork),
\* and none is installed in the CellularAutomata.
C34_NoDisposedNetworkInUse ==
    /\ \A g \in DOMAIN gas : \A i \in DOMAIN gas[g].population :
          nets[gas[g].population[i].network].isInitialized
    /\ nets[ca.neuralNetwork].isInitialized

\* a disposed candidate is installed in the CellularAutomata
C34_DisposedInstalled ==
    /\ ca.neuralNetwork # SharedNet
    /\ ~nets[ca.neuralNetwork].isInitialized
    /\ calls[1].status = "rejected"

\* no population holds a disposed network
C34_PopulationsAlive ==
    \A g \in DOMAIN gas : \A i \in DOMAIN gas[g].population :
        nets[gas[g].population[i].network].isInitialized

\* the CellularAutomata holds a disposed network only after an evaluation
\* that threw had left its candidate installed
C34_OnlyAfterFailedEvaluation ==
    ca.neuralNetwork = SharedNet => nets[ca.neuralNetwork].isInitialized

\* the calls of the page that recorded a generation's best loss in this step
ShownNow(c) ==
    /\ calls'[c].callback = "main"
    /\ Len(calls'[c].lossHistory) >
           (IF c \in DOMAIN calls THEN Len(calls[c].lossHistory) ELSE 0)

\* C35: in every generation the page's callback finds the best individual's
\* parameters in the shared network, and its run of the CellularAutomata
\* from the seed leaves the grid whose loss is the best loss reported.
C35_CallbackReproducesBest ==
    [][\A c \in DOMAIN calls' :
          ShownNow(c) =>
              LET best == lastEval'[1]
                  last == calls'[c].lossHistory[Len(calls'[c].lossHistory)]
              IN  /\ nets'[SharedNet].w = best.w
                  /\ best.loss = last
                  /\ cells' = runSteps(torus, SeedGrid,
                                       [w |-> best.w, isInitialized |-> TRUE],
                                       calls'[c].genSteps).cells
                  /\ _computeLoss(torus, cells', calls'[c].targetShape).loss = last]_vars

\* the page's training rejected in its first callback: the CellularAutomata
\* holds a disposed candidate of the earlier, failed training
C35_CallbackFailed ==
    /\ Len(calls) = 2
    /\ calls[2].callback = "main"
    /\ calls[2].status = "rejected"
    /\ Len(calls[2].lossHistory) = 1
    /\ ~nets[ca.neuralNetwork].isInitialized

\* the best individual's parameters are in the shared network whenever a
\* generation's best loss has been recorded for the page
C35_BestInstalledFirst ==
    [][\A c \in DOMAIN calls' :
          ShownNow(c) => /\ nets'[SharedNet].w = lastEval'[1].w
                         /\ lastEval'[1].loss =
                                calls'[c].lossHistory[Len(calls'[c].lossHistory)]]_vars

\* when the CellularAutomata holds the shared network, the callback's run
\* reproduces the best loss
C35_ReproducesWithSharedNetwork ==
    [][\A c \in DOMAIN calls' :
          ShownNow(c) /\ ca.neuralNetwork = SharedNet =>
              LET best == lastEval'[1]
              IN  /\ cells' = runSteps(torus, SeedGrid,
                                       [w |-> best.w, isInitialized |-> TRUE],
                                       calls'[c].genSteps).cells
                  /\ _computeLoss(torus, cells', calls'[c].targetShape).loss = best.loss]_vars

\* what a config asks for: its value, or the default where it has none
Asked(v, d) == IF v = Null THEN d ELSE v

\* C36: a GeneticAlgorithm holds every hyperparameter its config supplies, 0
\* included, and the default only for one the config leaves out.
C36_ConfigHonoured ==
    ev.kind = "newGA" =>
        LET config == ev.log.api[1].config
            ga == gas[ClientGA]
        IN  /\ ga.populationSize = Asked(config.populationSize, DefaultPopulationSize)
            /\ ga.mutationRate = Asked(config.mutationRate, DefaultMutationRate)
            /\ ga.mutationStrength = Asked(config.mutationStrength, DefaultMutationStrength)
            /\ ga.eliteCount = Asked(config.eliteCount, DefaultEliteCount)

\* a supplied eliteCount of 0 has become the default
C36_ZeroReplaced ==
    /\ ev.kind = "newGA"
    /\ ev.log.api[1].config.eliteCount = 0
    /\ gas[ClientGA].eliteCount = DefaultEliteCount

\* every value other than 0 is used, and the default stands in for a value
\* left out
C36_NonZeroHonoured ==
    ev.kind = "newGA" =>
        LET config == ev.log.api[1].config
            ga == gas[ClientGA]
        IN  /\ config.populationSize # 0 =>
                  ga.populationSize = Asked(config.populationSize, DefaultPopulationSize)
            /\ config.mutationRate # 0 =>
                  ga.mutationRate = Asked(config.mutationRate, DefaultMutationRate)
            /\ config.mutationStrength # 0 =>
                  ga.mutationStrength = Asked(config.mutationStrength, DefaultMutationStrength)
            /\ config.eliteCount # 0 =>
                  ga.eliteCount = Asked(config.eliteCount, DefaultEliteCount)

\* C37: start() on a running loop changes nothing: the fields of the
\* CellularAutomata, the pending timers and frames and the grid stay as
\* they are, and no update() is made.
C37_StartWhileRunning ==
    [][ev'.kind = "start" /\ ca.isRunning =>
          /\ ca' = ca
          /\ timeouts' = timeouts
          /\ frames' = frames
          /\ cells' = cells
          /\ lastRun' = lastRun
          /\ ev'.log.loopUpdates = 0]_vars

\* start() was called on a loop that had made two updates and has a timer
\* or frame pending
C37_Witness ==
    /\ ev.kind = "start"
    /\ ca.isRunning
    /\ ca.currentStep >= 2
    /\ timeouts + Cardinality(frames) >= 1
    /\ ev.log.loopUpdates = 0

====
